---- MODULE Spec2Model ----
(***************************************************************************)
(* Model of the CrowdCount shared state store (Code/shared_state.py), the  *)
(* zone statistics of the integrated detector                              *)
(* (Code/detector/integrated_detector.py) and the API handlers that read   *)
(* the store (Code/backend/api.py).                                        *)
(*                                                                         *)
(* Python values are represented as follows:                               *)
(*   dict            a function whose domain is the set of keys            *)
(*   list / deque    a sequence                                            *)
(*   set             a set                                                 *)
(*   Optional[T]     <<>> for None, <<v>> for a value v                    *)
(*   (x, y)          the tuple <<x, y>>                                    *)
(***************************************************************************)
EXTENDS Integers, Sequences, FiniteSets, TLC

VARIABLES
    \* ---- SharedState fields (shared_state.py:38-59) ----
    total_count,            \* self._total_count
    zone_counts,            \* self._zone_counts
    zone_visitors,          \* self._zone_visitors
    person_coordinates,     \* self._person_coordinates
    heatmap_accumulator,    \* self._heatmap_accumulator (Optional grid)
    frame_dimensions,       \* self._frame_dimensions, a pair used as (h, w)
    history,                \* self._history, deque(maxlen)
    global_threshold,       \* self._global_threshold
    zone_thresholds,        \* self._zone_thresholds
    last_update,            \* self._last_update (Optional datetime)
    detection_running,      \* self._detection_running
    \* ---- IntegratedPeopleDetector fields (integrated_detector.py:56-68) ----
    zones,                  \* self.zones['zones'], the zone list
    det_zone_visitors,      \* self.zone_visitors
    det_zone_current_count, \* self.zone_current_count
    frame_count,            \* frame_count of process_video
    \* ---- ConnectionManager of the API and its sockets (api.py:392-410) ----
    active_connections,     \* manager.active_connections
    connection_state,       \* connection_state[ws]: the client's end of
                            \* websocket ws, "open" or "closed"
    \* ---- SharedState, the class (shared_state.py:20-36) ----
    instance,               \* SharedState._instance
    initialized,            \* _instance._initialized (<<>> while the
                            \* attribute does not exist)
    attributes,             \* the names of the attributes the instance has
                            \* (a field's value counts only while its name
                            \* is here)
    class_lock,             \* <<>> or <<t>>: the holder of SharedState._lock
    state_lock,             \* the RLock self._state_lock refers to, named
                            \* by the thread that created it (<<>>: none)
    \* ---- backend/admin.py ----
    config_file,            \* data/config.json: <<>> while the file does not
                            \* exist, else <<config>>, the dict it holds
    \* ---- environment ----
    clock,                  \* the last value datetime.now() returned
    \* ---- threads (the detector thread, the API server's handlers) ----
    lock_owner,             \* <<>> or <<t>>: the holder of self._state_lock
    lock_depth,             \* recursion depth of the RLock
    pc,                     \* pc[t]: the statement thread t is at
    loc,                    \* loc[t]: the locals of thread t
    \* ---- history variables of the verification ----
    calls,                  \* every update_counts call made directly (not by
                            \* the detector), in the order of their time stamps
    last_frame,             \* the latest frame the detector processed
    ever,                   \* ever[z]: the identities seen in zone z so far
    cleared                 \* TRUE once clear_history has been called

store_vars == <<total_count, zone_counts, zone_visitors, person_coordinates,
                heatmap_accumulator, frame_dimensions, history,
                global_threshold, zone_thresholds, last_update,
                detection_running>>
detector_vars == <<zones, det_zone_visitors, det_zone_current_count,
                   frame_count>>
thread_vars == <<lock_owner, lock_depth, pc, loc>>
manager_vars == <<active_connections, connection_state>>
class_vars == <<instance, initialized, attributes, class_lock, state_lock>>
file_vars == <<config_file>>
vars == <<store_vars, detector_vars, manager_vars, class_vars, file_vars, clock,
          thread_vars, calls, last_frame, ever, cleared>>

(***************************************************************************)
(* Bounds of the model.                                                    *)
(***************************************************************************)
\* deque(maxlen=3600), scaled down
HistoryMaxLen == 2
\* the radius 30 of the disk drawn per coordinate, scaled down
HeatRadius == 1
\* the largest clock reading
MaxClock == 2
\* update_counts calls in the history specification
MaxHistCalls == 3
\* frames processed in the detector specification
MaxFrames == 2
\* update_counts calls in the concurrent specification
MaxConcCalls == 2
\* update_counts calls in the alert specification
MaxAlertCalls == 1
\* the largest limit asked of get_history
MaxLimit == 3

(***************************************************************************)
(* Python values.                                                          *)
(***************************************************************************)
None == <<>>
Some(v) == <<v>>
EmptyDict == [k \in {} |-> 0]
Min(a, b) == IF a < b THEN a ELSE b
Max(a, b) == IF a > b THEN a ELSE b

\* d.get(k): the value, or None
DictGet(d, k) == IF k \in DOMAIN d THEN Some(d[k]) ELSE None

\* d[k] = v
DictSet(d, k, v) == [x \in (DOMAIN d) \cup {k} |-> IF x = k THEN v ELSE d[x]]

\* datetime.isoformat(): the text of a time, one text per time
IsoFormat(t) == <<"iso", t>>

\* list[start:] for an integer start (negative: counted from the end)
PySliceFrom(list, start) ==
    LET n == Len(list)
        from == IF start < 0 THEN Max(n + start, 0) ELSE Min(start, n)
    IN  SubSeq(list, from + 1, n)

\* datetime.now(): a reading not before the last one
NowValues == clock .. Min(clock + 1, MaxClock)


(***************************************************************************)
(* The density grid: a numpy array of shape (h, w), indexed [row][column], *)
(* kept with its shape.                                                    *)
(***************************************************************************)
\* np.zeros((h, w), dtype=np.float32)
Zeros(h, w) ==
    [shape |-> <<h, w>>,
     cells |-> [c \in (0 .. h - 1) \X (0 .. w - 1) |-> 0]]

\* cv2.circle(grid, (x, y), radius, 1, -1): every cell of the grid within
\* the radius of column x, row y is set to the colour 1
Circle(grid, x, y) ==
    [grid EXCEPT !.cells =
        [c \in DOMAIN grid.cells |->
            IF (c[2] - x) * (c[2] - x) + (c[1] - y) * (c[1] - y)
                   <= HeatRadius * HeatRadius
            THEN 1
            ELSE grid.cells[c]]]

\* a test without the lower bounds
InBounds_NoLowerBound(dims, x, y) == x < dims[2] /\ y < dims[1]

\* the test of _update_heatmap on one coordinate
InBounds(dims, x, y) == 0 <= x /\ x < dims[2] /\ 0 <= y /\ y < dims[1]

\* the loop of _update_heatmap over the coordinates
RECURSIVE DrawAll(_, _, _)
DrawAll(grid, dims, coordinates) ==
    IF coordinates = <<>> THEN grid
    ELSE LET p == Head(coordinates)
         IN  DrawAll(IF InBounds(dims, p[1], p[2]) THEN Circle(grid, p[1], p[2])
                     ELSE grid,
                     dims, Tail(coordinates))

\* _update_heatmap: the accumulator after the call (allocated on first use)
UpdateHeatmap(acc, dims, coordinates) ==
    LET grid == IF acc = None THEN Zeros(dims[1], dims[2]) ELSE acc[1]
    IN  Some(DrawAll(grid, dims, coordinates))

(***************************************************************************)
(* The history ring.                                                       *)
(***************************************************************************)
\* the history_entry dict of update_counts
HistoryEntry(t, total, zc) ==
    [timestamp |-> IsoFormat(t), total_count |-> total, zone_counts |-> zc]

\* an append that, when the ring is full, drops the newest sample
DequeAppend_EvictNewest(h, e) ==
    IF Len(h) >= HistoryMaxLen
    THEN (IF HistoryMaxLen = 0 THEN <<>> ELSE Append(SubSeq(h, 1, Len(h) - 1), e))
    ELSE Append(h, e)

\* deque(maxlen=HistoryMaxLen).append(e)
DequeAppend(h, e) ==
    IF Len(h) >= HistoryMaxLen
    THEN (IF HistoryMaxLen = 0 THEN <<>> ELSE Append(Tail(h), e))
    ELSE Append(h, e)

\* get_history(limit): list(self._history)[-limit:]
GetHistory(limit) == PySliceFrom(history, 0 - limit)

(***************************************************************************)
(* Read accessors (each body runs under the state lock).                   *)
(***************************************************************************)
\* get_zone_counts computed from given counts and visitors
ZoneCountsOf(zc, zv) ==
    [z \in DOMAIN zc |->
        [current |-> zc[z],
         total_visitors |-> Cardinality(IF z \in DOMAIN zv THEN zv[z] ELSE {})]]

GetZoneCounts == ZoneCountsOf(zone_counts, zone_visitors)

\* Python truth value of the result of self._zone_thresholds.get(name)
Truthy(opt) == opt # None /\ opt[1] # 0

\* the record check_alerts stores under 'global'
GlobalAlert(total, gt) ==
    [type |-> "global", threshold |-> gt, current |-> total, exceeded |-> TRUE]

\* the record check_alerts stores under a zone's name
ZoneAlert(z, threshold, current) ==
    [type |-> "zone", zone |-> z, threshold |-> threshold,
     current |-> current, exceeded |-> TRUE]

\* the condition of the zone loop of check_alerts
ZoneExceeded(zc, zt, z) ==
    /\ Truthy(DictGet(zt, z))
    /\ zc[z] > DictGet(zt, z)[1]

\* check_alerts computed from given counts and thresholds: the global
\* record is stored first, the zone records after it under their names
AlertsOf(total, zc, gt, zt) ==
    LET zoneKeys == {z \in DOMAIN zc : ZoneExceeded(zc, zt, z)}
        globalKeys == IF total > gt THEN {"global"} ELSE {}
    IN  [k \in zoneKeys \cup globalKeys |->
            IF k \in zoneKeys THEN ZoneAlert(k, zt[k], zc[k])
            ELSE GlobalAlert(total, gt)]

CheckAlerts == AlertsOf(total_count, zone_counts, global_threshold, zone_thresholds)

\* get_summary
GetSummary ==
    [total_count |-> total_count,
     zone_counts |-> GetZoneCounts,
     last_update |-> IF last_update # None THEN Some(IsoFormat(last_update[1]))
                     ELSE None,
     detection_running |-> detection_running,
     alerts |-> CheckAlerts,
     global_threshold |-> global_threshold,
     zone_thresholds |-> zone_thresholds]

(***************************************************************************)
(* Store operations, each as one step of a caller that finds the lock free *)
(* and runs the method to its end.                                         *)
(***************************************************************************)
\* the record kept of one update_counts call
CallRecord(total, zc, zv, coordinates, t) ==
    [total_count |-> total, zone_counts |-> zc, zone_visitors |-> zv,
     coordinates |-> coordinates, time |-> t]

\* update_counts(total, zc, zv, coordinates), the clock reading t
UpdateCounts(total, zc, zv, coordinates, t) ==
    /\ lock_owner = None
    /\ total_count' = total
    /\ zone_counts' = zc
    /\ zone_visitors' = zv
    /\ person_coordinates' = coordinates
    /\ last_update' = Some(t)
    /\ clock' = t
    /\ heatmap_accumulator' =
           UpdateHeatmap(heatmap_accumulator, frame_dimensions, coordinates)
    /\ history' = DequeAppend(history, HistoryEntry(t, total, zc))
    /\ UNCHANGED <<frame_dimensions, global_threshold, zone_thresholds,
                   detection_running, thread_vars,
                   manager_vars, class_vars, file_vars>>

\* update_counts called with given arguments by a caller other than the
\* detector
UpdateCountsCall(args) ==
    /\ \E t \in NowValues :
           /\ UpdateCounts(args.total_count, args.zone_counts,
                           args.zone_visitors, args.coordinates, t)
           /\ calls' = Append(calls,
                  CallRecord(args.total_count, args.zone_counts,
                             args.zone_visitors, args.coordinates, t))
    /\ UNCHANGED <<detector_vars, last_frame, ever, cleared,
                   manager_vars, class_vars, file_vars>>

\* a set_frame_dimensions that stores the pair as (width, height) and
\* allocates the grid accordingly
SetFrameDimensions_Swapped(width, height) ==
    /\ lock_owner = None
    /\ frame_dimensions' = <<width, height>>
    /\ heatmap_accumulator' = Some(Zeros(width, height))
    /\ UNCHANGED <<total_count, zone_counts, zone_visitors, person_coordinates,
                   history, global_threshold, zone_thresholds, last_update,
                   detection_running, detector_vars, clock, thread_vars,
                   calls, last_frame, ever, cleared,
                   manager_vars, class_vars, file_vars>>

\* set_frame_dimensions(width, height)
SetFrameDimensions(width, height) ==
    /\ lock_owner = None
    /\ frame_dimensions' = <<height, width>>
    /\ heatmap_accumulator' = Some(Zeros(height, width))
    /\ UNCHANGED <<total_count, zone_counts, zone_visitors, person_coordinates,
                   history, global_threshold, zone_thresholds, last_update,
                   detection_running, detector_vars, clock, thread_vars,
                   calls, last_frame, ever, cleared,
                   manager_vars, class_vars, file_vars>>

\* a set_global_threshold that also clears the history
SetGlobalThreshold_ClearsHistory(threshold) ==
    /\ lock_owner = None
    /\ global_threshold' = threshold
    /\ history' = <<>>
    /\ UNCHANGED <<total_count, zone_counts, zone_visitors, person_coordinates,
                   heatmap_accumulator, frame_dimensions,
                   zone_thresholds, last_update, detection_running,
                   detector_vars, clock, thread_vars, calls, last_frame, ever, cleared,
                   manager_vars, class_vars, file_vars>>

\* set_global_threshold(threshold)
SetGlobalThreshold(threshold) ==
    /\ lock_owner = None
    /\ global_threshold' = threshold
    /\ UNCHANGED <<total_count, zone_counts, zone_visitors, person_coordinates,
                   heatmap_accumulator, frame_dimensions, history,
                   zone_thresholds, last_update, detection_running,
                   detector_vars, clock, thread_vars, calls, last_frame, ever, cleared,
                   manager_vars, class_vars, file_vars>>

\* set_zone_threshold(zone_name, threshold)
SetZoneThreshold(zone_name, threshold) ==
    /\ lock_owner = None
    /\ zone_thresholds' = DictSet(zone_thresholds, zone_name, threshold)
    /\ UNCHANGED <<total_count, zone_counts, zone_visitors, person_coordinates,
                   heatmap_accumulator, frame_dimensions, history,
                   global_threshold, last_update, detection_running,
                   detector_vars, clock, thread_vars, calls, last_frame, ever, cleared,
                   manager_vars, class_vars, file_vars>>

\* set_detection_running(running)
SetDetectionRunning(running) ==
    /\ lock_owner = None
    /\ detection_running' = running
    /\ UNCHANGED <<total_count, zone_counts, zone_visitors, person_coordinates,
                   heatmap_accumulator, frame_dimensions, history,
                   global_threshold, zone_thresholds, last_update,
                   detector_vars, clock, thread_vars, calls, last_frame, ever, cleared,
                   manager_vars, class_vars, file_vars>>

\* a reset that clears the first row only
FillZero_FirstRow(acc) ==
    IF acc # None
    THEN Some([acc[1] EXCEPT !.cells =
                  [c \in DOMAIN acc[1].cells |->
                      IF c[1] = 0 THEN 0 ELSE acc[1].cells[c]]])
    ELSE acc

\* the accumulator after `if acc is not None: acc.fill(0)`: fill keeps the
\* array and its shape
FillZero(acc) ==
    IF acc # None
    THEN Some([acc[1] EXCEPT !.cells = [c \in DOMAIN acc[1].cells |-> 0]])
    ELSE acc

\* reset_heatmap()
ResetHeatmap ==
    /\ lock_owner = None
    /\ heatmap_accumulator' = FillZero(heatmap_accumulator)
    /\ UNCHANGED <<total_count, zone_counts, zone_visitors, person_coordinates,
                   frame_dimensions, history, global_threshold, zone_thresholds,
                   last_update, detection_running, detector_vars, clock,
                   thread_vars, calls, last_frame, ever, cleared,
                   manager_vars, class_vars, file_vars>>

\* a clear_history that also marks detection as stopped
ClearHistory_StopsDetection ==
    /\ lock_owner = None
    /\ history' = <<>>
    /\ cleared' = TRUE
    /\ detection_running' = FALSE
    /\ UNCHANGED <<total_count, zone_counts, zone_visitors, person_coordinates,
                   heatmap_accumulator, frame_dimensions, global_threshold,
                   zone_thresholds, last_update,
                   detector_vars, clock, thread_vars, calls, last_frame, ever,
                   manager_vars, class_vars, file_vars>>

\* clear_history()
ClearHistory ==
    /\ lock_owner = None
    /\ history' = <<>>
    /\ cleared' = TRUE
    /\ UNCHANGED <<total_count, zone_counts, zone_visitors, person_coordinates,
                   heatmap_accumulator, frame_dimensions, global_threshold,
                   zone_thresholds, last_update, detection_running,
                   detector_vars, clock, thread_vars, calls, last_frame, ever,
                   manager_vars, class_vars, file_vars>>

(***************************************************************************)
(* The state after SharedState() (shared_state.py:31-59), before any       *)
(* detector or thread exists.                                              *)
(***************************************************************************)
\* the default (1920, 1080) of self._frame_dimensions, scaled down
DefaultDim0 == 4
DefaultDim1 == 3
\* the default global threshold
DefaultGlobalThreshold == 50

\* the class once the module has been imported: `shared_state =
\* SharedState()` (shared_state.py:244-245) has run in the importing thread
InitOrder ==
    <<"_state_lock", "_total_count", "_zone_counts", "_zone_visitors",
      "_person_coordinates", "_heatmap_accumulator", "_frame_dimensions",
      "_history", "_global_threshold", "_zone_thresholds", "_last_update",
      "_detection_running">>

\* the attributes of an instance whose __init__ has run
InstanceAttributes ==
    {"_initialized"} \cup {InitOrder[i] : i \in DOMAIN InitOrder}

ClassInit ==
    /\ instance = <<"shared_state">>
    /\ initialized = <<TRUE>>
    /\ attributes = InstanceAttributes
    /\ class_lock = <<>>
    /\ state_lock = <<"main">>

\* manager = ConnectionManager() (api.py:410), no socket accepted yet
NoConnections ==
    /\ active_connections = <<>>
    /\ connection_state = <<>>

\* the "global_threshold" of the default configuration (admin.py:61)
ConfigDefaultGlobalThreshold == 50

\* the default_config dict of _load_config (admin.py:58-66), of which the
\* model keeps the "thresholds" entry
DefaultConfig ==
    [thresholds |-> [global_threshold |-> ConfigDefaultGlobalThreshold,
                     zone_thresholds |-> EmptyDict]]

\* a deployment whose data/config.json has not been written yet
NoConfigFile == config_file = None

\* _load_config(): the dict it returns
LoadConfig == IF config_file = None THEN DefaultConfig ELSE config_file[1]

\* _load_config(): the file it leaves (a missing file is created with the
\* default configuration)
LoadConfigFile == IF config_file = None THEN Some(DefaultConfig) ELSE config_file

\* the values __init__ gives the fields, and the environment
FieldsInit ==
    /\ total_count = 0
    /\ zone_counts = EmptyDict
    /\ zone_visitors = EmptyDict
    /\ person_coordinates = <<>>
    /\ heatmap_accumulator = None
    /\ frame_dimensions = <<DefaultDim0, DefaultDim1>>
    /\ history = <<>>
    /\ global_threshold = DefaultGlobalThreshold
    /\ zone_thresholds = EmptyDict
    /\ last_update = None
    /\ detection_running = FALSE
    /\ clock = 0
    /\ calls = <<>>
    /\ cleared = FALSE

StoreInit == ClassInit /\ FieldsInit

\* no detector has been constructed and no thread is in a store method
NoDetector ==
    /\ zones = <<>>
    /\ det_zone_visitors = EmptyDict
    /\ det_zone_current_count = EmptyDict
    /\ frame_count = 0
    /\ last_frame = None
    /\ ever = EmptyDict

NoThreads ==
    /\ lock_owner = None
    /\ lock_depth = 0
    /\ pc = EmptyDict
    /\ loc = EmptyDict

Init ==
    StoreInit /\ NoDetector /\ NoThreads /\ NoConnections /\ NoConfigFile


(***************************************************************************)
(* SpecHist: update_counts, clear_history and get_history.                 *)
(***************************************************************************)
\* the arguments of update_counts tried
HistArgs ==
    [total_count : {0, 1},
     zone_counts : {EmptyDict, [z \in {"A"} |-> 1]},
     zone_visitors : {EmptyDict},
     coordinates : {<<>>}]

HistUpdate ==
    /\ Len(calls) < MaxHistCalls
    /\ \E args \in HistArgs : UpdateCountsCall(args)

HistClear == ClearHistory

NextHist == HistUpdate \/ HistClear

SpecHist == Init /\ [][NextHist]_vars

\* the last n elements of a sequence
LastN(list, n) == SubSeq(list, Len(list) - n + 1, Len(list))

\* the sample each update_counts call appended, in call order
AllSamples ==
    [i \in 1 .. Len(calls) |->
        HistoryEntry(calls[i].time, calls[i].total_count, calls[i].zone_counts)]

\* C4: after any sequence of update_counts calls (and no clear_history),
\* get_history(limit) is, for every limit >= 0, the last
\* min(limit, calls so far, capacity) samples in insertion order.
C4_HistoryLastN ==
    ~cleared =>
        \A limit \in 0 .. MaxLimit :
            GetHistory(limit) =
                LastN(AllSamples, Min(limit, Min(Len(calls), HistoryMaxLen)))

\* C16: the history never holds more than the capacity; every
\* update_counts appends exactly one sample, the one of that call, as the
\* newest; below capacity the older samples all stay, and at capacity the
\* oldest sample and only it is evicted.
C16_HistoryRingFifo ==
    [][/\ Len(history) <= HistoryMaxLen
       /\ Len(history') <= HistoryMaxLen
       /\ \A args \in HistArgs :
              UpdateCountsCall(args) =>
                  /\ Len(history') = Min(Len(history) + 1, HistoryMaxLen)
                  /\ history'[Len(history')] =
                         HistoryEntry(last_update'[1], args.total_count,
                                      args.zone_counts)
                  /\ SubSeq(history', 1, Len(history') - 1) =
                         IF Len(history) < HistoryMaxLen THEN history
                         ELSE Tail(history)]_vars

\* more calls than the capacity: the ring is full and holds the newest
\* samples, the first call's sample is gone
C16_Witness ==
    /\ ~cleared
    /\ Len(calls) > HistoryMaxLen
    /\ Len(history) = HistoryMaxLen
    /\ history = LastN(AllSamples, HistoryMaxLen)
    /\ \A i \in DOMAIN history : history[i] # AllSamples[1]

(***************************************************************************)
(* SpecAlert: update_counts, the threshold setters and check_alerts.       *)
(***************************************************************************)
ZoneNameArgs == {"A", "global"}

\* the dicts with keys among ZoneNameArgs and values among vals
DictsOver(vals) ==
    UNION {[ks -> vals] : ks \in SUBSET ZoneNameArgs}

AlertArgs ==
    [total_count : {0, 2, 50, 51},
     zone_counts : DictsOver({1, 2}),
     zone_visitors : {EmptyDict},
     coordinates : {<<>>}]

GlobalThresholdArgs == {1, 50}
ZoneThresholdArgs == {0, 1}

AlertUpdate ==
    /\ Len(calls) < MaxAlertCalls
    /\ \E args \in AlertArgs : UpdateCountsCall(args)

AlertSetGlobal == \E v \in GlobalThresholdArgs : SetGlobalThreshold(v)

AlertSetZone ==
    \E z \in ZoneNameArgs : \E v \in ZoneThresholdArgs : SetZoneThreshold(z, v)

NextAlert == AlertUpdate \/ AlertSetGlobal \/ AlertSetZone

SpecAlert == Init /\ [][NextAlert]_vars

\* C9: check_alerts has a record under 'global' exactly when total_count
\* is greater than the global threshold, and that record is the global
\* alert (type global, the threshold, the count, exceeded).
C9_GlobalAlertIff ==
    /\ ("global" \in DOMAIN CheckAlerts) <=> (total_count > global_threshold)
    /\ "global" \in DOMAIN CheckAlerts =>
           CheckAlerts["global"] = GlobalAlert(total_count, global_threshold)

\* C10: for each zone of zone_counts, check_alerts has a zone alert under
\* the zone's name exactly when a threshold is set for the zone and the
\* zone's current count is greater than it.
C10_ZoneAlertIff ==
    \A z \in DOMAIN zone_counts :
        (z \in DOMAIN CheckAlerts /\ CheckAlerts[z].type = "zone")
            <=> (z \in DOMAIN zone_thresholds /\ zone_counts[z] > zone_thresholds[z])


(***************************************************************************)
(* SpecCheck: a caller that calls check_alerts time and again, between     *)
(* update_counts calls of the detector and threshold changes.  loc is the  *)
(* caller's record of the last two results.                                *)
(***************************************************************************)
\* the arguments of update_counts tried
CheckArgs ==
    {[total_count |-> 2, zone_counts |-> [z \in {"A"} |-> 1]],
     [total_count |-> 51, zone_counts |-> [z \in {"A"} |-> 2]],
     [total_count |-> 2, zone_counts |-> [z \in {"global"} |-> 2]]}

\* update_counts as the detector calls it
CheckUpdate ==
    /\ \E args \in CheckArgs : \E t \in NowValues :
           UpdateCounts(args.total_count, args.zone_counts, EmptyDict, <<>>, t)
    /\ UNCHANGED <<detector_vars, calls, last_frame, ever, cleared,
                   manager_vars, class_vars, file_vars>>

CheckSetGlobal == \E v \in GlobalThresholdArgs : SetGlobalThreshold(v)

CheckSetZone == \E z \in ZoneNameArgs : SetZoneThreshold(z, 1)

\* the caller's record after a call that returned result
Returned(result) ==
    [result |-> result,
     previous |-> IF loc = EmptyDict THEN EmptyDict ELSE loc.result]

\* a check_alerts that adds its alerts to those it returned before
CheckAlertsCall_Sticky ==
    /\ lock_owner = None
    /\ loc' = Returned(IF loc = EmptyDict THEN CheckAlerts
                       ELSE CheckAlerts @@ loc.result)
    /\ UNCHANGED <<store_vars, detector_vars, clock, lock_owner, lock_depth,
                   pc, calls, last_frame, ever, cleared,
                   manager_vars, class_vars, file_vars>>

\* check_alerts(): the dict is built from an empty one on every call and
\* no field of the store is assigned
CheckAlertsCall ==
    /\ lock_owner = None
    /\ loc' = Returned(CheckAlerts)
    /\ UNCHANGED <<store_vars, detector_vars, clock, lock_owner, lock_depth,
                   pc, calls, last_frame, ever, cleared,
                   manager_vars, class_vars, file_vars>>

NextCheck == CheckUpdate \/ CheckSetGlobal \/ CheckSetZone \/ CheckAlertsCall

SpecCheck == Init /\ [][NextCheck]_vars

\* the alert records of the given type in a result of check_alerts
RecordsOfType(result, type) ==
    {result[k] : k \in {x \in DOMAIN result : result[x].type = type}}

\* C11: every check_alerts call returns the alerts of the current counts
\* and current thresholds and changes no state; when total_count is at
\* most the global threshold the result has no global alert, and when a
\* zone's count is at most its threshold (or the zone has no count) the
\* result has no alert for that zone, whatever was returned before.
C11_AlertsNotSticky ==
    [][CheckAlertsCall =>
          /\ UNCHANGED <<store_vars, detector_vars, clock>>
          /\ loc'.result = AlertsOf(total_count, zone_counts,
                                    global_threshold, zone_thresholds)
          /\ total_count <= global_threshold =>
                 RecordsOfType(loc'.result, "global") = {}
          /\ \A z \in DOMAIN zone_thresholds :
                 (z \notin DOMAIN zone_counts
                      \/ zone_counts[z] <= zone_thresholds[z]) =>
                     \A r \in RecordsOfType(loc'.result, "zone") : r.zone # z]_vars

\* check_alerts returned a global and a zone alert, an update then brought
\* both counts to at most their thresholds, and the next check_alerts
\* returned no alert
C11_Witness ==
    /\ loc # EmptyDict
    /\ RecordsOfType(loc.previous, "global") # {}
    /\ \E r \in RecordsOfType(loc.previous, "zone") : r.zone = "A"
    /\ loc.result = EmptyDict
    /\ global_threshold = DefaultGlobalThreshold
    /\ "A" \in DOMAIN zone_counts
    /\ "A" \in DOMAIN zone_thresholds
    /\ zone_counts["A"] <= zone_thresholds["A"]
    /\ total_count <= global_threshold
    /\ Len(history) >= 2


\* the fields a threshold setter has to leave alone
counted_vars == <<total_count, zone_counts, zone_visitors, person_coordinates,
                  history, heatmap_accumulator, frame_dimensions, last_update,
                  detection_running>>

\* C18: a step of set_global_threshold(v) or set_zone_threshold(name, v)
\* leaves counts, visitors, coordinates, history, heatmap and the running
\* flag unchanged and makes check_alerts and get_summary evaluate against
\* v from the state it returns in; the thresholds change in no other step
\* (update_counts and check_alerts leave them alone), and the records a
\* check_alerts call returns carry the thresholds stored at that time.
C18_ThresholdSetters ==
    [][/\ \A v \in GlobalThresholdArgs :
              SetGlobalThreshold(v) =>
                  /\ UNCHANGED <<counted_vars, zone_thresholds>>
                  /\ CheckAlerts' = AlertsOf(total_count, zone_counts, v,
                                             zone_thresholds)
                  /\ GetSummary'.global_threshold = v
                  /\ GetSummary'.alerts = CheckAlerts'
       /\ \A z \in ZoneNameArgs :
              SetZoneThreshold(z, 1) =>
                  /\ UNCHANGED <<counted_vars, global_threshold>>
                  /\ CheckAlerts' =
                         AlertsOf(total_count, zone_counts, global_threshold,
                                  DictSet(zone_thresholds, z, 1))
                  /\ GetSummary'.zone_thresholds[z] = 1
                  /\ GetSummary'.alerts = CheckAlerts'
       /\ global_threshold' # global_threshold =>
              \E v \in GlobalThresholdArgs : SetGlobalThreshold(v)
       /\ zone_thresholds' # zone_thresholds =>
              \E z \in ZoneNameArgs : SetZoneThreshold(z, 1)
       /\ CheckAlertsCall =>
              /\ \A r \in RecordsOfType(loc'.result, "global") :
                     r.threshold = global_threshold
              /\ \A r \in RecordsOfType(loc'.result, "zone") :
                     r.threshold = zone_thresholds[r.zone]]_vars

\* with total_count 2 a check_alerts returned no alert under the default
\* threshold; after set_global_threshold(1), with the count and the
\* history as they were, the next check_alerts returned the global alert
\* with threshold 1
C18_Witness ==
    /\ loc # EmptyDict
    /\ loc.previous = EmptyDict
    /\ total_count = 2
    /\ Len(history) = 1
    /\ global_threshold = 1
    /\ zone_thresholds = EmptyDict
    /\ loc.result = [k \in {"global"} |-> GlobalAlert(2, 1)]


(***************************************************************************)
(* SpecConfig: the HTTP entry points that set thresholds                   *)
(* (api.py:161-185, admin.py:380-420, models.py:182-185).                  *)
(***************************************************************************)
\* the integers a request may carry
ThresholdArgs == -1 .. 3

\* Optional[int] parameters and bodies
OptionalThresholdArgs == {None} \cup {Some(v) : v \in ThresholdArgs}

\* Field(None, ge=1) / Query(default=None, ge=1): absent, or at least 1
ValidGe1(opt) == IF opt = None THEN TRUE ELSE opt[1] >= 1

\* Optional[Dict[str, int]]: absent, or any mapping from names to integers
ZoneThresholdUpdateArgs ==
    {None} \cup {Some(d) : d \in UNION {[ks -> ThresholdArgs] :
                                          ks \in SUBSET {"A", "B"}}}

\* dict.update / one set_zone_threshold per item
DictUpdate(d, upd) ==
    [k \in DOMAIN d \cup DOMAIN upd |-> IF k \in DOMAIN upd THEN upd[k] ELSE d[k]]

\* POST /alerts/threshold?global_threshold=&zone_name=&zone_threshold=
\* (a request that fails validation is answered 422 and changes nothing)
PostAlertsThreshold(g, zone_name, zt) ==
    /\ ValidGe1(g)
    /\ ValidGe1(zt)
    /\ lock_owner = None
    /\ global_threshold' = IF g # None THEN g[1] ELSE global_threshold
    /\ zone_thresholds' =
           IF zone_name # None /\ zone_name # Some("") /\ zt # None
           THEN DictSet(zone_thresholds, zone_name[1], zt[1])
           ELSE zone_thresholds
    /\ UNCHANGED <<counted_vars, detector_vars, clock, thread_vars, calls,
                   last_frame, ever, cleared,
                   manager_vars, class_vars, file_vars>>

\* PUT /admin/config/thresholds with a ThresholdUpdate body: the
\* "thresholds" entry of the configuration file and the store are both
\* updated with the fields the body carries, and the file is saved
UpdateThresholds(g, zts) ==
    /\ ValidGe1(g)
    /\ lock_owner = None
    /\ LET config == LoadConfig
           thresholds == IF "thresholds" \in DOMAIN config
                         THEN config.thresholds
                         ELSE DefaultConfig.thresholds
       IN  config_file' =
               Some(("thresholds" :>
                        [global_threshold |->
                             IF g # None THEN g[1]
                             ELSE thresholds.global_threshold,
                         zone_thresholds |->
                             IF zts # None
                             THEN DictUpdate(thresholds.zone_thresholds, zts[1])
                             ELSE thresholds.zone_thresholds]) @@ config)
    /\ global_threshold' = IF g # None THEN g[1] ELSE global_threshold
    /\ zone_thresholds' =
           IF zts # None THEN DictUpdate(zone_thresholds, zts[1])
           ELSE zone_thresholds
    /\ UNCHANGED <<counted_vars, detector_vars, clock, thread_vars, calls,
                   last_frame, ever, cleared,
                   manager_vars, class_vars>>

ConfigPost ==
    \E g \in OptionalThresholdArgs :
        \E zone_name \in {None, Some(""), Some("A"), Some("B")} :
            \E zt \in OptionalThresholdArgs :
                PostAlertsThreshold(g, zone_name, zt)

ConfigPut ==
    \E g \in OptionalThresholdArgs : \E zts \in ZoneThresholdUpdateArgs :
        UpdateThresholds(g, zts)

NextConfig == ConfigPost \/ ConfigPut

SpecConfig == Init /\ [][NextConfig]_vars

\* C19: in every reachable state the global threshold and every stored
\* zone threshold are integers of at least 1.
C19_ThresholdsPositive ==
    /\ global_threshold >= 1
    /\ \A z \in DOMAIN zone_thresholds : zone_thresholds[z] >= 1


(***************************************************************************)
(* SpecHeat: update_counts with coordinates, set_frame_dimensions,         *)
(* reset_heatmap and get_heatmap_image.                                    *)
(***************************************************************************)
\* update_counts calls in the heatmap specification
MaxHeatCalls == 2

\* the coordinate lists tried: none, one point, the same point with a
\* neighbour whose disk overlaps, a point outside every grid, an in-bounds
\* point followed by one out of bounds, and a point left of the grid whose
\* disk would reach into it
HeatCoordinateArgs ==
    {<<>>, << <<1, 1>> >>, << <<1, 1>>, <<2, 1>> >>, << <<7, 7>> >>,
     << <<1, 1>>, <<7, 7>> >>, << <<-1, 0>> >>}

\* the (width, height) pairs tried
HeatDimensionArgs == {<<3, 2>>, <<2, 3>>}

HeatArgs ==
    [total_count : {1},
     zone_counts : {EmptyDict},
     zone_visitors : {EmptyDict},
     coordinates : HeatCoordinateArgs]

HeatUpdate ==
    /\ Len(calls) < MaxHeatCalls
    /\ \E args \in HeatArgs : UpdateCountsCall(args)

HeatSetDimensions ==
    \E d \in HeatDimensionArgs : SetFrameDimensions(d[1], d[2])

HeatReset == ResetHeatmap

NextHeat == HeatUpdate \/ HeatSetDimensions \/ HeatReset

SpecHeat == Init /\ [][NextHeat]_vars

\* the grid _update_heatmap starts from
GridOf(acc, dims) == IF acc = None THEN Zeros(dims[1], dims[2]) ELSE acc[1]

\* the number of disks of one coordinate list that cover cell c
DisksOver(c, dims, coordinates) ==
    Cardinality({i \in DOMAIN coordinates :
        /\ InBounds(dims, coordinates[i][1], coordinates[i][2])
        /\ (c[2] - coordinates[i][1]) * (c[2] - coordinates[i][1])
               + (c[1] - coordinates[i][2]) * (c[1] - coordinates[i][2])
               <= HeatRadius * HeatRadius})

\* heatmap.max()
GridMax(grid) ==
    CHOOSE m \in {grid.cells[c] : c \in DOMAIN grid.cells} :
        \A c \in DOMAIN grid.cells : grid.cells[c] <= m

\* (heatmap / heatmap.max() * 255).astype(np.uint8) when the maximum is
\* positive, heatmap.astype(np.uint8) otherwise
Normalize(grid) ==
    LET mx == GridMax(grid)
    IN  [grid EXCEPT !.cells =
            [c \in DOMAIN grid.cells |->
                IF mx > 0 THEN (grid.cells[c] * 255) \div mx
                ELSE grid.cells[c] % 256]]

\* the index BORDER_REFLECT_101 reads for index i of an axis of length n
Reflect101(i, n) ==
    IF n = 1 THEN 0
    ELSE IF i < 0 THEN 0 - i
    ELSE IF i >= n THEN 2 * n - 2 - i
    ELSE i

\* cv2.GaussianBlur(heatmap, (51, 51), 0) on 8-bit cells, with the kernel
\* scaled down to 3 x 3 (weights 1 2 1 per axis, rounded sum over 16)
GaussianBlur(grid) ==
    LET h == grid.shape[1]
        w == grid.shape[2]
        weight(d) == IF d = 0 THEN 2 ELSE 1
        at(r, c) == grid.cells[<<Reflect101(r, h), Reflect101(c, w)>>]
        sum(c) ==
            LET row(dr) == weight(dr) * (at(c[1] + dr, c[2] - 1)
                                         + 2 * at(c[1] + dr, c[2])
                                         + at(c[1] + dr, c[2] + 1))
            IN  row(-1) + row(0) + row(1)
    IN  [grid EXCEPT !.cells = [c \in DOMAIN grid.cells |-> (sum(c) + 8) \div 16]]

\* cv2.applyColorMap(heatmap, cv2.COLORMAP_JET): one colour per cell value
ApplyColorMap(grid) ==
    [shape |-> grid.shape,
     pixels |-> [c \in DOMAIN grid.cells |-> <<"jet", grid.cells[c]>>]]

\* cv2.imencode('.png', image) and buffer.tobytes()
ImEncode(image) == <<"png", image>>

\* a get_heatmap_image that returns None for a grid without a mark
GetHeatmapImage_NoneWhenBlank ==
    IF heatmap_accumulator = None THEN None
    ELSE IF GridMax(heatmap_accumulator[1]) = 0 THEN None
    ELSE Some(ImEncode(ApplyColorMap(GaussianBlur(Normalize(
                  heatmap_accumulator[1])))))

\* get_heatmap_image()
GetHeatmapImage ==
    IF heatmap_accumulator = None THEN None
    ELSE Some(ImEncode(ApplyColorMap(GaussianBlur(Normalize(
                  heatmap_accumulator[1])))))

\* C12: every update_counts adds, to each cell of the grid, the number of
\* disks of its in-bounds coordinates that cover the cell; so a cell
\* covered by k disks since the last reset holds k, and a position seen
\* again in a later update has a greater value than before.
C12_HeatmapAccumulates ==
    [][\A args \in HeatArgs :
          UpdateCountsCall(args) =>
              LET before == GridOf(heatmap_accumulator, frame_dimensions)
              IN  /\ heatmap_accumulator' # None
                  /\ \A c \in DOMAIN before.cells :
                         heatmap_accumulator'[1].cells[c] =
                             before.cells[c]
                                 + DisksOver(c, frame_dimensions,
                                             args.coordinates)]_vars


\* C13: reset_heatmap leaves a grid that is all zero and has the shape it
\* had, with frame_dimensions unchanged; a second reset changes nothing
\* more; and accumulating any coordinate list after the reset gives the
\* grid that accumulating it on a freshly dimensioned grid gives.  (Before
\* the first allocation there is no array: the reset leaves it so, and the
\* next accumulation allocates the zero grid.)
C13_ResetIdempotent ==
    [][ResetHeatmap =>
          LET before == GridOf(heatmap_accumulator, frame_dimensions)
              after == GridOf(heatmap_accumulator', frame_dimensions')
          IN  /\ after = Zeros(before.shape[1], before.shape[2])
              /\ frame_dimensions' = frame_dimensions
              /\ FillZero(heatmap_accumulator') = heatmap_accumulator'
              /\ \A coordinates \in HeatCoordinateArgs :
                     UpdateHeatmap(heatmap_accumulator', frame_dimensions',
                                   coordinates)
                         = UpdateHeatmap(Some(Zeros(frame_dimensions[1],
                                                    frame_dimensions[2])),
                                         frame_dimensions, coordinates)]_vars

\* a grid of the default dimensions (never re-dimensioned) that an update
\* with an in-bounds coordinate had marked is all zero again
C13_Witness ==
    /\ frame_dimensions = <<DefaultDim0, DefaultDim1>>
    /\ heatmap_accumulator = Some(Zeros(DefaultDim0, DefaultDim1))
    /\ \E i \in DOMAIN calls : \E j \in DOMAIN calls[i].coordinates :
           InBounds(frame_dimensions, calls[i].coordinates[j][1],
                    calls[i].coordinates[j][2])


\* the PNG of an image of the given shape whose cells all have value 0
BlankImage(h, w) ==
    ImEncode([shape |-> <<h, w>>,
              pixels |-> [c \in (0 .. h - 1) \X (0 .. w - 1) |-> <<"jet", 0>>]])

\* C20: once set_frame_dimensions has been called, and as long as no
\* update_counts has been, get_heatmap_image returns (not None) the image
\* of the all-zero grid of the dimensions set, through the branch without
\* the division.
C20_BlankHeatmapImage ==
    (calls = <<>> /\ heatmap_accumulator # None) =>
        /\ GridMax(heatmap_accumulator[1]) = 0
        /\ Normalize(heatmap_accumulator[1]) = heatmap_accumulator[1]
        /\ GetHeatmapImage # None
        /\ GetHeatmapImage =
               Some(BlankImage(frame_dimensions[1], frame_dimensions[2]))

\* set_frame_dimensions(3, 2) has been called, no update_counts yet, and
\* the image is the blank one of 2 rows and 3 columns
C20_Witness ==
    /\ calls = <<>>
    /\ frame_dimensions = <<2, 3>>
    /\ heatmap_accumulator # None
    /\ GetHeatmapImage = Some(BlankImage(2, 3))


\* GET /heatmap (api.py:125-143): 404 with an error body when the store
\* has no image, else the PNG bytes
GetHeatmap ==
    LET heatmap_bytes == GetHeatmapImage
    IN  IF heatmap_bytes = None
        THEN [status_code |-> 404,
              content |-> "Heatmap not available. Detection may not be running."]
        ELSE [status_code |-> 200, content |-> heatmap_bytes[1]]

\* set_frame_dimensions has been called: its arguments (HeatDimensionArgs)
\* never give the pair SharedState() starts with, and nothing else assigns
\* frame_dimensions
DimensionsSet == frame_dimensions # <<DefaultDim0, DefaultDim1>>

\* C21: get_heatmap_image returns None, and GET /heatmap answers 404,
\* exactly when set_frame_dimensions has not been called yet; otherwise
\* an image is returned.
C21_ImageIffDimensionsSet ==
    /\ (GetHeatmapImage = None) <=> ~DimensionsSet
    /\ (GetHeatmap.status_code = 404) <=> ~DimensionsSet


\* the coordinates of a list that lie inside a grid of h rows and w columns
InsideOf(coordinates, h, w) ==
    SelectSeq(coordinates,
              LAMBDA p : p[1] \in 0 .. w - 1 /\ p[2] \in 0 .. h - 1)

\* C22: an update_counts whose list holds out-of-bounds coordinates
\* completes; the grid is changed by the in-bounds coordinates only (a cell
\* is 1 when the disk of one of them covers it and keeps its value
\* otherwise), and the counts, the whole coordinate list, the time stamp
\* and the history sample of the call are applied all the same.
C22_OutOfBoundsIgnored ==
    [][\A args \in HeatArgs :
          UpdateCountsCall(args) =>
              LET before == GridOf(heatmap_accumulator, frame_dimensions)
                  inside == InsideOf(args.coordinates, before.shape[1],
                                     before.shape[2])
              IN  /\ heatmap_accumulator' # None
                  /\ heatmap_accumulator'[1].shape = before.shape
                  /\ \A c \in DOMAIN before.cells :
                         heatmap_accumulator'[1].cells[c] =
                             IF \E i \in DOMAIN inside :
                                    (c[2] - inside[i][1]) * (c[2] - inside[i][1])
                                      + (c[1] - inside[i][2]) * (c[1] - inside[i][2])
                                        <= HeatRadius * HeatRadius
                             THEN 1
                             ELSE before.cells[c]
                  /\ total_count' = args.total_count
                  /\ zone_counts' = args.zone_counts
                  /\ zone_visitors' = args.zone_visitors
                  /\ person_coordinates' = args.coordinates
                  /\ last_update' = Some(clock')
                  /\ history' # <<>>
                  /\ history'[Len(history')] =
                         HistoryEntry(clock', args.total_count,
                                      args.zone_counts)]_vars

\* the latest update carried an in-bounds and an out-of-bounds coordinate:
\* both are in the stored list, the disk of the first is drawn, and the
\* sample of the call is the newest of the history
C22_Witness ==
    /\ calls # <<>>
    /\ calls[Len(calls)].coordinates = << <<1, 1>>, <<7, 7>> >>
    /\ person_coordinates = << <<1, 1>>, <<7, 7>> >>
    /\ heatmap_accumulator # None
    /\ heatmap_accumulator[1].cells[<<1, 1>>] = 1
    /\ history # <<>>
    /\ history[Len(history)] =
           HistoryEntry(calls[Len(calls)].time, 1, EmptyDict)


\* the points the in-bounds test is compared on
BoundsProbe == (-1 .. 4) \X (-1 .. 4)

\* C23: set_frame_dimensions(width, height) leaves the all-zero grid of
\* height rows and width columns; from then on the in-bounds test of
\* _update_heatmap is 0 <= x < width and 0 <= y < height (an update with a
\* single coordinate marks the grid exactly when the coordinate passes
\* it); and no other field of the store changes.
C23_SetFrameDimensions ==
    [][\A d \in HeatDimensionArgs :
          SetFrameDimensions(d[1], d[2]) =>
              LET width == d[1]
                  height == d[2]
              IN  /\ heatmap_accumulator' # None
                  /\ heatmap_accumulator'[1].shape = <<height, width>>
                  /\ DOMAIN heatmap_accumulator'[1].cells =
                         (0 .. height - 1) \X (0 .. width - 1)
                  /\ \A c \in DOMAIN heatmap_accumulator'[1].cells :
                         heatmap_accumulator'[1].cells[c] = 0
                  /\ \A p \in BoundsProbe :
                         LET inside == /\ 0 <= p[1] /\ p[1] < width
                                       /\ 0 <= p[2] /\ p[2] < height
                         IN  /\ InBounds(frame_dimensions', p[1], p[2])
                                    <=> inside
                             /\ (UpdateHeatmap(heatmap_accumulator',
                                               frame_dimensions', <<p>>)
                                     # heatmap_accumulator') <=> inside
                  /\ UNCHANGED <<total_count, zone_counts, zone_visitors,
                                 person_coordinates, history,
                                 global_threshold, zone_thresholds,
                                 last_update, detection_running>>]_vars

\* set_frame_dimensions(2, 3) was called after an update had stored
\* coordinates and marked the grid: the grid is the zero grid of 3 rows and
\* 2 columns and the stored coordinates and sample are still there
C23_Witness ==
    /\ frame_dimensions = <<3, 2>>
    /\ heatmap_accumulator = Some(Zeros(3, 2))
    /\ person_coordinates = << <<1, 1>>, <<2, 1>> >>
    /\ history # <<>>
    /\ last_update # None


(***************************************************************************)
(* The detection flag among the other store operations                     *)
(* (shared_state.py:209-217).                                              *)
(***************************************************************************)
MaxRunCalls == 2

\* is_detection_running()
IsDetectionRunning == detection_running

RunArgs ==
    [total_count : {1},
     zone_counts : {EmptyDict},
     zone_visitors : {EmptyDict},
     coordinates : {<<>>, << <<1, 1>> >>}]

RunSetRunning == \E running \in BOOLEAN : SetDetectionRunning(running)

RunUpdate ==
    /\ Len(calls) < MaxRunCalls
    /\ \E args \in RunArgs : UpdateCountsCall(args)

RunSetGlobal == \E threshold \in GlobalThresholdArgs : SetGlobalThreshold(threshold)

RunSetZone ==
    \E zone_name \in ZoneNameArgs : \E threshold \in ZoneThresholdArgs :
        SetZoneThreshold(zone_name, threshold)

RunReset == ResetHeatmap

RunClear == ClearHistory

NextRun ==
    \/ RunSetRunning
    \/ RunUpdate
    \/ RunSetGlobal
    \/ RunSetZone
    \/ RunReset
    \/ RunClear

SpecRun == Init /\ [][NextRun]_vars

\* C24: is_detection_running is false after construction;
\* set_detection_running(b) makes it b and changes no other field; and
\* update_counts, the threshold setters, reset_heatmap and clear_history
\* leave it as it is.  So it returns the value most recently set.
C24_DetectionFlag ==
    /\ ~IsDetectionRunning
    /\ [][\A running \in BOOLEAN :
             SetDetectionRunning(running) =>
                 /\ IsDetectionRunning' = running
                 /\ UNCHANGED <<total_count, zone_counts, zone_visitors,
                                person_coordinates, heatmap_accumulator,
                                frame_dimensions, history, global_threshold,
                                zone_thresholds, last_update>>]_vars
    /\ [][(RunUpdate \/ RunSetGlobal \/ RunSetZone \/ RunReset \/ RunClear)
             => IsDetectionRunning' = IsDetectionRunning]_vars

\* the flag is set while updates were stored, both thresholds were set, the
\* grid was reset and the history cleared
C24_Witness ==
    /\ IsDetectionRunning
    /\ Len(calls) = MaxRunCalls
    /\ global_threshold # DefaultGlobalThreshold
    /\ zone_thresholds # EmptyDict
    /\ heatmap_accumulator = Some(Zeros(DefaultDim0, DefaultDim1))
    /\ person_coordinates # <<>>
    /\ cleared
    /\ history = <<>>

(***************************************************************************)
(* The detector: zone membership and zone statistics                       *)
(* (integrated_detector.py:144-189).                                       *)
(***************************************************************************)
\* cv2.pointPolygonTest(contour, pt, False) for an int32 contour and an
\* integer point: the edge loop from edge i on, with the crossings counted
\* so far; 0 on an edge or vertex, 1 inside, -1 outside
RECURSIVE PolygonEdges(_, _, _, _)
PolygonEdges(cnt, ip, i, counter) ==
    IF i > Len(cnt) THEN (IF counter % 2 = 0 THEN -1 ELSE 1)
    ELSE
        LET v0 == IF i = 1 THEN cnt[Len(cnt)] ELSE cnt[i - 1]
            v == cnt[i]
            aside == \/ (v0[2] <= ip[2] /\ v[2] <= ip[2])
                     \/ (v0[2] > ip[2] /\ v[2] > ip[2])
                     \/ (v0[1] < ip[1] /\ v[1] < ip[1])
            onEdge == /\ ip[2] = v[2]
                      /\ \/ ip[1] = v[1]
                         \/ /\ ip[2] = v0[2]
                            /\ \/ (v0[1] <= ip[1] /\ ip[1] <= v[1])
                               \/ (v[1] <= ip[1] /\ ip[1] <= v0[1])
            cross == (ip[2] - v0[2]) * (v[1] - v0[1])
                         - (ip[1] - v0[1]) * (v[2] - v0[2])
            dist == IF v[2] < v0[2] THEN 0 - cross ELSE cross
        IN  IF aside
            THEN (IF onEdge THEN 0 ELSE PolygonEdges(cnt, ip, i + 1, counter))
            ELSE IF cross = 0 THEN 0
            ELSE PolygonEdges(cnt, ip, i + 1,
                              counter + (IF dist > 0 THEN 1 ELSE 0))

PointPolygonTest(cnt, pt) ==
    IF Len(cnt) = 0 THEN -1 ELSE PolygonEdges(cnt, pt, 1, 0)

\* PointInZone without the boundary
PointInZone_Strict(point, zone_points) ==
    PointPolygonTest(zone_points, point) > 0

\* point_in_zone(point, zone_points)
PointInZone(point, zone_points) == PointPolygonTest(zone_points, point) >= 0

\* get_person_zone(bbox_center) over the zones from index i on: the names
\* of the enabled zones containing the point, in list order
RECURSIVE PersonZonesFrom(_, _, _)
PersonZonesFrom(zs, bbox_center, i) ==
    IF i > Len(zs) THEN <<>>
    ELSE IF ~zs[i].enabled THEN PersonZonesFrom(zs, bbox_center, i + 1)
    ELSE IF PointInZone(bbox_center, zs[i].points)
         THEN <<zs[i].name>> \o PersonZonesFrom(zs, bbox_center, i + 1)
         ELSE PersonZonesFrom(zs, bbox_center, i + 1)

\* GetPersonZone that stops at the first zone containing the point
GetPersonZone_FirstOnly(zs, bbox_center) ==
    LET all == PersonZonesFrom(zs, bbox_center, 1)
    IN  IF all = <<>> THEN <<>> ELSE <<Head(all)>>

GetPersonZone(zs, bbox_center) == PersonZonesFrom(zs, bbox_center, 1)

\* the detection dicts detect_people builds from the tracker's output
Detections(zs, frame) ==
    [i \in 1 .. Len(frame) |->
        [id |-> frame[i].id, center |-> frame[i].center,
         zones |-> GetPersonZone(zs, frame[i].center)]]

\* CountZone with the current count stored as 1 instead of incremented
CountZone_NoIncrement(stats, track_id, zone_name) ==
    [current |-> DictSet(stats.current, zone_name, 1),
     visitors |->
        DictSet(stats.visitors, zone_name,
                (IF zone_name \in DOMAIN stats.visitors
                 THEN stats.visitors[zone_name] ELSE {}) \cup {track_id})]

\* the body of the zone loop of update_zone_statistics for one zone name
CountZone(stats, track_id, zone_name) ==
    [current |->
        DictSet(stats.current, zone_name,
                (IF zone_name \in DOMAIN stats.current
                 THEN stats.current[zone_name] ELSE 0) + 1),
     visitors |->
        DictSet(stats.visitors, zone_name,
                (IF zone_name \in DOMAIN stats.visitors
                 THEN stats.visitors[zone_name] ELSE {}) \cup {track_id})]

\* the zone loop of update_zone_statistics for one detection
RECURSIVE CountZones(_, _, _)
CountZones(stats, track_id, names) ==
    IF names = <<>> THEN stats
    ELSE CountZones(CountZone(stats, track_id, Head(names)), track_id,
                    Tail(names))

\* the detection loop of update_zone_statistics
RECURSIVE CountDetections(_, _)
CountDetections(stats, detections) ==
    IF detections = <<>> THEN stats
    ELSE CountDetections(
             CountZones(stats, Head(detections).id, Head(detections).zones),
             Tail(detections))

\* UpdateZoneStatistics with zone_visitors cleared as well
UpdateZoneStatistics_ClearVisitors(visitors, detections) ==
    CountDetections([current |-> EmptyDict, visitors |-> EmptyDict], detections)

\* update_zone_statistics: zone_current_count is cleared, zone_visitors kept
UpdateZoneStatistics(visitors, detections) ==
    CountDetections([current |-> EmptyDict, visitors |-> visitors], detections)

\* the coordinates list in reverse order
Coordinates_Reversed(detections) ==
    [i \in 1 .. Len(detections) |->
        detections[Len(detections) + 1 - i].center]

\* the coordinates list of update_shared_state
Coordinates(detections) ==
    [i \in 1 .. Len(detections) |-> detections[i].center]

\* the elements of a sequence
Range(list) == {list[i] : i \in DOMAIN list}

\* the names of the zone list
ZoneNames(zs) == {zs[i].name : i \in DOMAIN zs}
EnabledZoneNames(zs) == {zs[i].name : i \in {j \in DOMAIN zs : zs[j].enabled}}

\* the identities of the detections whose zone set contains z
IdsIn(detections, z) ==
    {detections[i].id : i \in {j \in DOMAIN detections :
                                   z \in Range(detections[j].zones)}}

\* detect_people on one frame of tracker output (after the confidence and
\* box filters): update_zone_statistics, then update_shared_state
DetectPeople(frame) ==
    LET detections == Detections(zones, frame)
        stats == UpdateZoneStatistics(det_zone_visitors, detections)
    IN  /\ det_zone_current_count' = stats.current
        /\ det_zone_visitors' = stats.visitors
        /\ \E t \in NowValues :
               UpdateCounts(Len(detections), stats.current, stats.visitors,
                            Coordinates(detections), t)
        /\ last_frame' = Some(detections)
        /\ ever' = [z \in DOMAIN ever |-> ever[z] \cup IdsIn(detections, z)]
        /\ UNCHANGED <<zones, calls, cleared,
                       manager_vars, class_vars, file_vars>>


(***************************************************************************)
(* SpecDet: one detector processing frames and publishing them.            *)
(***************************************************************************)
\* zones.json: zone A lies inside zone B, zone C is disabled
ZoneA == [name |-> "A", enabled |-> TRUE,
          points |-> << <<0, 0>>, <<2, 0>>, <<2, 2>>, <<0, 2>> >>]
ZoneB == [name |-> "B", enabled |-> TRUE,
          points |-> << <<0, 0>>, <<4, 0>>, <<4, 2>>, <<0, 2>> >>]
ZoneC == [name |-> "C", enabled |-> FALSE,
          points |-> << <<0, 0>>, <<6, 0>>, <<6, 2>>, <<0, 2>> >>]
ZoneList == <<ZoneA, ZoneB, ZoneC>>

\* tracker output: identities and box centers (in A and B, in B only)
IdArgs == {1, 2, 3}
CenterArgs == {<<1, 1>>, <<3, 1>>}
DetLengths == 0 .. 2

\* the frames tried: identities ascending
DetFrames ==
    LET dets == [id : IdArgs, center : CenterArgs]
        seqs == UNION {[1 .. n -> dets] : n \in DetLengths}
    IN  {f \in seqs : \A i \in 1 .. Len(f) - 1 : f[i].id < f[i + 1].id}

InitDet ==
    /\ StoreInit
    /\ NoConnections
    /\ NoConfigFile
    /\ NoThreads
    /\ zones = ZoneList
    /\ det_zone_visitors = EmptyDict
    /\ det_zone_current_count = EmptyDict
    /\ frame_count = 0
    /\ last_frame = None
    /\ ever = [z \in ZoneNames(ZoneList) |-> {}]

\* one turn of the frame loop of process_video
ProcessFrame ==
    /\ frame_count < MaxFrames
    /\ frame_count' = frame_count + 1
    /\ \E frame \in DetFrames : DetectPeople(frame)

NextDet == ProcessFrame

SpecDet == InitDet /\ [][NextDet]_vars


\* the number of detections whose zone set contains z
CountIn(detections, z) ==
    Cardinality({i \in DOMAIN detections : z \in Range(detections[i].zones)})

\* C5: after any sequence of processed frames, every zone that
\* get_zone_counts reports is a zone of the zone list, its current is the
\* number of detections of the latest frame whose zone set contains it and
\* its total_visitors is the number of distinct identities that were in it
\* in any frame so far (an identity seen again is counted once); a zone
\* that is not reported has no detection in the latest frame.
C5_ZoneStatistics ==
    last_frame # None =>
        /\ DOMAIN GetZoneCounts \subseteq ZoneNames(zones)
        /\ \A z \in ZoneNames(zones) :
               IF z \in DOMAIN GetZoneCounts
               THEN /\ GetZoneCounts[z].current = CountIn(last_frame[1], z)
                    /\ GetZoneCounts[z].total_visitors = Cardinality(ever[z])
               ELSE CountIn(last_frame[1], z) = 0

\* two frames with two detections each in zone A, one identity in both
\* frames: current 2, three visitors
C5_Witness ==
    /\ frame_count = 2
    /\ "A" \in DOMAIN GetZoneCounts
    /\ GetZoneCounts["A"] = [current |-> 2, total_visitors |-> 3]

\* C6: from one update to the next no zone loses a visitor, in the
\* detector's sets and in the store's copy, and a visitor total reported
\* before and after has not decreased; this also holds when the zone's
\* current count drops to zero.
C6_VisitorsNeverShrink ==
    [][/\ \A z \in DOMAIN det_zone_visitors :
              /\ z \in DOMAIN det_zone_visitors'
              /\ det_zone_visitors[z] \subseteq det_zone_visitors'[z]
       /\ \A z \in DOMAIN zone_visitors :
              /\ z \in DOMAIN zone_visitors'
              /\ zone_visitors[z] \subseteq zone_visitors'[z]
       /\ \A z \in DOMAIN zone_counts \cap DOMAIN zone_counts' :
              ZoneCountsOf(zone_counts, zone_visitors)[z].total_visitors
                  <= ZoneCountsOf(zone_counts', zone_visitors')[z].total_visitors
      ]_vars

\* zone A has had visitors and its current count has dropped to zero
C6_Witness ==
    /\ frame_count = 2
    /\ "A" \in DOMAIN zone_visitors
    /\ zone_visitors["A"] # {}
    /\ "A" \notin DOMAIN zone_counts

\* C7: after a frame in which no detection lies in an enabled zone of the
\* zone list, get_zone_counts still has the zone, with current 0 and its
\* visitor total unchanged.
C7_ZeroedForKnownZones ==
    last_frame # None =>
        \A z \in EnabledZoneNames(zones) :
            CountIn(last_frame[1], z) = 0 =>
                /\ z \in DOMAIN GetZoneCounts
                /\ GetZoneCounts[z] =
                       [current |-> 0, total_visitors |-> Cardinality(ever[z])]

\* the indexes of the detections whose center lies in the polygon
CentersIn(detections, zone_points) ==
    {i \in DOMAIN detections : PointInZone(detections[i].center, zone_points)}

\* C8: total_count is the number of detections, whatever zones overlap, and
\* each detection whose center lies in the polygon of an enabled zone is
\* counted in that zone's current (once per zone) and recorded in that
\* zone's visitors, for every such zone.
C8_OverlapCountsBoth ==
    last_frame # None =>
        /\ total_count = Len(last_frame[1])
        /\ \A k \in DOMAIN zones : \A i \in DOMAIN last_frame[1] :
               (zones[k].enabled
                    /\ PointInZone(last_frame[1][i].center, zones[k].points)) =>
                   /\ zones[k].name \in DOMAIN zone_counts
                   /\ zone_counts[zones[k].name] =
                          Cardinality(CentersIn(last_frame[1], zones[k].points))
                   /\ last_frame[1][i].id \in zone_visitors[zones[k].name]

\* one detection with its center in both A and B
C8_Witness ==
    /\ last_frame # None
    /\ Len(last_frame[1]) = 1
    /\ PointInZone(last_frame[1][1].center, ZoneA.points)
    /\ PointInZone(last_frame[1][1].center, ZoneB.points)
    /\ total_count = 1
    /\ zone_counts = [z \in {"A", "B"} |-> 1]

\* get_coordinates(): a copy of the stored list
GetCoordinates == person_coordinates

\* C28: after every frame the detector has published, the stored total is
\* the number of detections of that frame and the length of the stored
\* coordinate list, and the list holds the centers of the detections, one
\* per detection, in detection order.
C28_TotalIsDetectionCount ==
    last_frame # None =>
        LET detections == last_frame[1]
        IN  /\ total_count = Len(detections)
            /\ Len(GetCoordinates) = total_count
            /\ \A i \in 1 .. Len(detections) :
                   GetCoordinates[i] = detections[i].center

\* the latest frame had two detections, the first at (3, 1) and the second
\* at (1, 1): the stored list has them in that order and the total is 2
C28_Witness ==
    /\ last_frame # None
    /\ Len(last_frame[1]) = 2
    /\ last_frame[1][1].center = <<3, 1>>
    /\ total_count = 2
    /\ GetCoordinates = << <<3, 1>>, <<1, 1>> >>


(***************************************************************************)
(* SpecZone: process_video over zone lists of several shapes, among them   *)
(* zones of fewer than 3 points, one detection per frame.                  *)
(***************************************************************************)
\* a triangle, and zones of one, two and no point
ZoneT == [name |-> "T", enabled |-> TRUE,
          points |-> << <<0, 0>>, <<4, 0>>, <<0, 4>> >>]
ZoneP1 == [name |-> "D", enabled |-> TRUE, points |-> << <<1, 1>> >>]
ZoneP2 == [name |-> "D", enabled |-> TRUE,
           points |-> << <<0, 0>>, <<2, 2>> >>]
ZoneP0 == [name |-> "D", enabled |-> TRUE, points |-> <<>>]

\* the contents of zones.json tried
ZoneListArgs ==
    {ZoneList, <<ZoneT, ZoneA>>, <<ZoneC, ZoneB, ZoneT>>,
     <<ZoneP1, ZoneA>>, <<ZoneP2, ZoneB>>, <<ZoneP0, ZoneA>>}

\* box centers: inside, on an edge, on a vertex, outside
PointArgs == {<<1, 1>>, <<2, 1>>, <<0, 0>>, <<3, 1>>, <<2, 2>>, <<5, 5>>}

\* every point get_person_zone is evaluated at in the properties
PointGrid == (-1 .. 5) \X (-1 .. 5)

InitZone ==
    /\ StoreInit
    /\ NoConnections
    /\ NoConfigFile
    /\ NoThreads
    /\ zones \in ZoneListArgs
    /\ det_zone_visitors = EmptyDict
    /\ det_zone_current_count = EmptyDict
    /\ frame_count = 0
    /\ last_frame = None
    /\ ever = [z \in ZoneNames(zones) |-> {}]

\* process_video up to its frame loop: set_frame_dimensions and
\* set_detection_running(True)
ZoneStart ==
    /\ ~detection_running
    /\ frame_count = 0
    /\ lock_owner = None
    /\ \E d \in HeatDimensionArgs :
           /\ frame_dimensions' = <<d[2], d[1]>>
           /\ heatmap_accumulator' = Some(Zeros(d[2], d[1]))
    /\ detection_running' = TRUE
    /\ UNCHANGED <<total_count, zone_counts, zone_visitors, person_coordinates,
                   history, global_threshold, zone_thresholds, last_update,
                   detector_vars, clock, thread_vars, calls, last_frame, ever,
                   cleared,
                   manager_vars, class_vars, file_vars>>

\* the contour of an enabled zone has no point: cv2 may reject it
\* (CV_Assert on the contour's shape) instead of returning -1
MayRaise(zs) == \E k \in DOMAIN zs : zs[k].enabled /\ zs[k].points = <<>>

\* a turn of the frame loop that ends with the exception: the finally
\* block of process_video runs set_detection_running(False)
ZoneFrameRaises ==
    /\ detection_running
    /\ frame_count < MaxFrames
    /\ MayRaise(zones)
    /\ lock_owner = None
    /\ frame_count' = frame_count + 1
    /\ detection_running' = FALSE
    /\ UNCHANGED <<total_count, zone_counts, zone_visitors, person_coordinates,
                   heatmap_accumulator, frame_dimensions, history,
                   global_threshold, zone_thresholds, last_update, zones,
                   det_zone_visitors, det_zone_current_count, clock,
                   thread_vars, calls, last_frame, ever, cleared,
                   manager_vars, class_vars, file_vars>>

\* a turn of the frame loop with one detection
ZoneFrame ==
    /\ detection_running
    /\ frame_count < MaxFrames
    /\ frame_count' = frame_count + 1
    /\ \E p \in PointArgs : DetectPeople(<<[id |-> 1, center |-> p]>>)

NextZone == ZoneStart \/ ZoneFrame \/ ZoneFrameRaises

SpecZone == InitZone /\ [][NextZone]_vars

\* a point of the closed convex polygon: on one side of every edge, or on
\* the edge
ConvexContains(points, p) ==
    LET n == Len(points)
        side(i) ==
            LET a == points[i]
                b == points[(i % n) + 1]
            IN  (b[1] - a[1]) * (p[2] - a[2]) - (b[2] - a[2]) * (p[1] - a[1])
    IN  \/ \A i \in 1 .. n : side(i) >= 0
        \/ \A i \in 1 .. n : side(i) <= 0

\* the names, in list order, of the enabled zones whose polygon contains p
ZonesContaining(zs, p) ==
    LET inside == SelectSeq(zs, LAMBDA z : z.enabled /\ ConvexContains(z.points, p))
    IN  [i \in 1 .. Len(inside) |-> inside[i].name]

\* every zone of the list has a polygon of 3 points or more
WellFormed(zs) == \A k \in DOMAIN zs : Len(zs[k].points) >= 3

\* C14: for a zone list of polygons, get_person_zone(point) is, for every
\* point, the sequence in list order of the names of the enabled zones
\* whose closed polygon (edges and vertices included) contains the point;
\* so are the zones of every detection of a processed frame.
C14_ZonesContainingPoint ==
    WellFormed(zones) =>
        /\ \A p \in PointGrid : GetPersonZone(zones, p) = ZonesContaining(zones, p)
        /\ last_frame # None =>
               \A i \in DOMAIN last_frame[1] :
                   last_frame[1][i].zones =
                       ZonesContaining(zones, last_frame[1][i].center)

\* a detection on a vertex of A and an edge of B, with the disabled zone C
\* around it: the frame reports A and B in list order
C14_Witness ==
    /\ zones = ZoneList
    /\ last_frame # None
    /\ last_frame[1][1].center = <<2, 2>>
    /\ last_frame[1][1].zones = <<"A", "B">>
    /\ zone_counts = [z \in {"A", "B"} |-> 1]

\* C15: a zone of fewer than 3 points contains no point, the test never
\* raises (the frame loop keeps running), and every processed frame
\* reports no detection in such a zone.
C15_MalformedNeverContains ==
    /\ \A k \in DOMAIN zones :
           Len(zones[k].points) < 3 =>
               \A p \in PointGrid : ~PointInZone(p, zones[k].points)
    /\ frame_count > 0 => detection_running
    /\ last_frame # None =>
           \A i \in DOMAIN last_frame[1] : \A k \in DOMAIN zones :
               Len(zones[k].points) < 3 =>
                   zones[k].name \notin Range(last_frame[1][i].zones)


(***************************************************************************)
(* SpecConc: threads inside the store's methods, one Python statement per  *)
(* step.  Writers call update_counts, a reader calls get_summary, and an   *)
(* API handler builds a response from several accessor calls.              *)
(***************************************************************************)
Writers == {"w1", "w2"}
Readers == {"r1"}
Handlers == {"h1"}
Threads == Writers \cup Readers \cup Handlers

\* the arguments of update_counts tried by the writers
ConcArgs ==
    {[total_count |-> 1, zone_counts |-> [z \in {"A"} |-> 1],
      zone_visitors |-> [z \in {"A"} |-> {1}],
      coordinates |-> << <<1, 1>> >>],
     [total_count |-> 51, zone_counts |-> [z \in {"A", "B"} |-> 2],
      zone_visitors |-> [z \in {"A", "B"} |-> {1, 2}],
      coordinates |-> << <<1, 1>>, <<2, 1>> >>]}

\* the variables no store method touches
outside_vars == <<detector_vars, last_frame, ever, cleared>>

Goto(t, label) == pc' = [pc EXCEPT ![t] = label]

\* LockAvailable without mutual exclusion
LockAvailable_NoExclusion(t) == TRUE

\* threading.RLock: free, or already held by the caller
LockAvailable(t) == lock_owner = None \/ lock_owner = Some(t)

\* `with self._state_lock:` entered by t
Acquire(t) ==
    /\ LockAvailable(t)
    /\ lock_owner' = Some(t)
    /\ lock_depth' = lock_depth + 1

\* an exit that decrements the depth but leaves the lock held
Release_KeepsLock(t) ==
    /\ lock_depth' = lock_depth - 1
    /\ lock_owner' = lock_owner

\* the end of the `with` block
Release(t) ==
    /\ lock_depth' = lock_depth - 1
    /\ lock_owner' = IF lock_depth - 1 <= 0 THEN None ELSE lock_owner

\* the update_counts calls that have not stamped their time yet
PendingCalls ==
    {w \in Writers :
        pc[w] \in {"u_lock", "u_total", "u_zc", "u_zv", "u_coords", "u_now"}}

\* a thread calls update_counts(args)
WriterCall(w) ==
    /\ pc[w] = "idle"
    /\ Len(calls) + Cardinality(PendingCalls) < MaxConcCalls
    /\ \E args \in ConcArgs : loc' = [loc EXCEPT ![w] = args]
    /\ Goto(w, "u_lock")
    /\ UNCHANGED <<store_vars, clock, calls, lock_owner, lock_depth,
                   outside_vars,
                   manager_vars, class_vars, file_vars>>

\* shared_state.py:67
WriterLock(w) ==
    /\ pc[w] = "u_lock"
    /\ Acquire(w)
    /\ Goto(w, "u_total")
    /\ UNCHANGED <<store_vars, clock, calls, loc, outside_vars,
                   manager_vars, class_vars, file_vars>>

\* shared_state.py:68
WriterTotal(w) ==
    /\ pc[w] = "u_total"
    /\ total_count' = loc[w].total_count
    /\ Goto(w, "u_zc")
    /\ UNCHANGED <<zone_counts, zone_visitors, person_coordinates,
                   heatmap_accumulator, frame_dimensions, history,
                   global_threshold, zone_thresholds, last_update,
                   detection_running, clock, calls, lock_owner, lock_depth,
                   loc, outside_vars,
                   manager_vars, class_vars, file_vars>>

\* shared_state.py:69
WriterZoneCounts(w) ==
    /\ pc[w] = "u_zc"
    /\ zone_counts' = loc[w].zone_counts
    /\ Goto(w, "u_zv")
    /\ UNCHANGED <<total_count, zone_visitors, person_coordinates,
                   heatmap_accumulator, frame_dimensions, history,
                   global_threshold, zone_thresholds, last_update,
                   detection_running, clock, calls, lock_owner, lock_depth,
                   loc, outside_vars,
                   manager_vars, class_vars, file_vars>>

\* shared_state.py:70
WriterZoneVisitors(w) ==
    /\ pc[w] = "u_zv"
    /\ zone_visitors' = loc[w].zone_visitors
    /\ Goto(w, "u_coords")
    /\ UNCHANGED <<total_count, zone_counts, person_coordinates,
                   heatmap_accumulator, frame_dimensions, history,
                   global_threshold, zone_thresholds, last_update,
                   detection_running, clock, calls, lock_owner, lock_depth,
                   loc, outside_vars,
                   manager_vars, class_vars, file_vars>>

\* shared_state.py:71
WriterCoordinates(w) ==
    /\ pc[w] = "u_coords"
    /\ person_coordinates' = loc[w].coordinates
    /\ Goto(w, "u_now")
    /\ UNCHANGED <<total_count, zone_counts, zone_visitors,
                   heatmap_accumulator, frame_dimensions, history,
                   global_threshold, zone_thresholds, last_update,
                   detection_running, clock, calls, lock_owner, lock_depth,
                   loc, outside_vars,
                   manager_vars, class_vars, file_vars>>

\* shared_state.py:72
WriterNow(w) ==
    /\ pc[w] = "u_now"
    /\ \E t \in NowValues :
           /\ last_update' = Some(t)
           /\ clock' = t
           /\ calls' = Append(calls,
                  CallRecord(loc[w].total_count, loc[w].zone_counts,
                             loc[w].zone_visitors, loc[w].coordinates, t))
    /\ Goto(w, "u_heat")
    /\ UNCHANGED <<total_count, zone_counts, zone_visitors, person_coordinates,
                   heatmap_accumulator, frame_dimensions, history,
                   global_threshold, zone_thresholds, detection_running,
                   lock_owner, lock_depth, loc, outside_vars,
                   manager_vars, class_vars, file_vars>>

\* shared_state.py:75
WriterHeatmap(w) ==
    /\ pc[w] = "u_heat"
    /\ heatmap_accumulator' =
           UpdateHeatmap(heatmap_accumulator, frame_dimensions,
                         loc[w].coordinates)
    /\ Goto(w, "u_hist")
    /\ UNCHANGED <<total_count, zone_counts, zone_visitors, person_coordinates,
                   frame_dimensions, history, global_threshold, zone_thresholds,
                   last_update, detection_running, clock, calls, lock_owner,
                   lock_depth, loc, outside_vars,
                   manager_vars, class_vars, file_vars>>

\* shared_state.py:78-83: the entry takes its time from self._last_update
WriterHistory(w) ==
    /\ pc[w] = "u_hist"
    /\ history' = DequeAppend(history,
                      HistoryEntry(last_update[1], loc[w].total_count,
                                   loc[w].zone_counts))
    /\ Goto(w, "u_unlock")
    /\ UNCHANGED <<total_count, zone_counts, zone_visitors, person_coordinates,
                   heatmap_accumulator, frame_dimensions, global_threshold,
                   zone_thresholds, last_update, detection_running, clock,
                   calls, lock_owner, lock_depth, loc, outside_vars,
                   manager_vars, class_vars, file_vars>>

\* the end of the with block of update_counts
WriterUnlock(w) ==
    /\ pc[w] = "u_unlock"
    /\ Release(w)
    /\ Goto(w, "idle")
    /\ loc' = [loc EXCEPT ![w] = EmptyDict]
    /\ UNCHANGED <<store_vars, clock, calls, outside_vars,
                   manager_vars, class_vars, file_vars>>


\* a thread calls get_summary()
ReaderCall(r) ==
    /\ pc[r] = "idle"
    /\ Goto(r, "s_lock")
    /\ UNCHANGED <<store_vars, clock, calls, lock_owner, lock_depth, loc,
                   outside_vars,
                   manager_vars, class_vars, file_vars>>

\* shared_state.py:232
ReaderLock(r) ==
    /\ pc[r] = "s_lock"
    /\ Acquire(r)
    /\ Goto(r, "s_total")
    /\ UNCHANGED <<store_vars, clock, calls, loc, outside_vars,
                   manager_vars, class_vars, file_vars>>

\* a step of get_summary that evaluates one entry of the returned dict
ReaderEval(r, at, key, value, next) ==
    /\ pc[r] = at
    /\ LockAvailable(r)
    /\ loc' = [loc EXCEPT ![r] = (key :> value) @@ loc[r]]
    /\ Goto(r, next)
    /\ UNCHANGED <<store_vars, clock, calls, lock_owner, lock_depth,
                   outside_vars,
                   manager_vars, class_vars, file_vars>>

\* shared_state.py:234
ReaderTotal(r) ==
    ReaderEval(r, "s_total", "total_count", total_count, "s_zones")

\* shared_state.py:235 (get_zone_counts re-enters the lock)
ReaderZones(r) ==
    ReaderEval(r, "s_zones", "zone_counts", GetZoneCounts, "s_last")

\* shared_state.py:236
ReaderLast(r) ==
    ReaderEval(r, "s_last", "last_update",
               IF last_update # None THEN Some(IsoFormat(last_update[1]))
               ELSE None,
               "s_running")

\* shared_state.py:237
ReaderRunning(r) ==
    ReaderEval(r, "s_running", "detection_running", detection_running,
               "s_alerts")

\* shared_state.py:238 (check_alerts re-enters the lock)
ReaderAlerts(r) ==
    ReaderEval(r, "s_alerts", "alerts", CheckAlerts, "s_global")

\* shared_state.py:239
ReaderGlobalThreshold(r) ==
    ReaderEval(r, "s_global", "global_threshold", global_threshold, "s_zt")

\* shared_state.py:240
ReaderZoneThresholds(r) ==
    ReaderEval(r, "s_zt", "zone_thresholds", zone_thresholds, "s_unlock")

\* the end of the with block of get_summary: the dict is returned
ReaderUnlock(r) ==
    /\ pc[r] = "s_unlock"
    /\ Release(r)
    /\ Goto(r, "s_done")
    /\ UNCHANGED <<store_vars, clock, calls, loc, outside_vars,
                   manager_vars, class_vars, file_vars>>

\* the caller is done with the summary
ReaderReturn(r) ==
    /\ pc[r] = "s_done"
    /\ loc' = [loc EXCEPT ![r] = EmptyDict]
    /\ Goto(r, "idle")
    /\ UNCHANGED <<store_vars, clock, calls, lock_owner, lock_depth,
                   outside_vars,
                   manager_vars, class_vars, file_vars>>

(***************************************************************************)
(* The API handlers (api.py): each entry of a response is the result of    *)
(* its own accessor call, and each accessor takes and releases the lock.   *)
(***************************************************************************)
\* the store entries of each response, in evaluation order
HandlerPlan(endpoint) ==
    CASE endpoint = "ws" -> <<"total_count", "zones", "alerts", "timestamp">>
      [] endpoint = "count" -> <<"total_count", "timestamp", "detection_running">>
      [] endpoint = "zones" -> <<"zones", "timestamp">>
      [] endpoint = "alerts" -> <<"alerts", "global_threshold", "total_count">>

Endpoints == {"ws", "count", "zones", "alerts"}

\* the accessor call behind an entry other than the time stamp
AccessorValue(key) ==
    CASE key = "total_count" -> total_count
      [] key = "zones" -> GetZoneCounts
      [] key = "alerts" -> CheckAlerts
      [] key = "detection_running" -> detection_running
      [] key = "global_threshold" -> global_threshold

\* a request arrives (or the /ws loop starts its next turn)
HandlerCall(h) ==
    /\ pc[h] = "idle"
    /\ \E e \in Endpoints :
           loc' = [loc EXCEPT ![h] = [endpoint |-> e, i |-> 1, msg |-> EmptyDict]]
    /\ Goto(h, "h_read")
    /\ UNCHANGED <<store_vars, clock, calls, lock_owner, lock_depth,
                   outside_vars,
                   manager_vars, class_vars, file_vars>>

\* the handler's position after entry i of its plan
HandlerAfter(h, i) ==
    IF i >= Len(HandlerPlan(loc[h].endpoint)) THEN "h_done" ELSE "h_read"

\* one accessor call of the handler; for the time stamp this is the call
\* in the condition of `... if shared_state.get_last_update() else None`
HandlerRead(h) ==
    /\ pc[h] = "h_read"
    /\ LockAvailable(h)
    /\ LET key == HandlerPlan(loc[h].endpoint)[loc[h].i]
       IN  IF key = "timestamp"
           THEN IF last_update = None
                THEN /\ loc' = [loc EXCEPT ![h].msg = (key :> None) @@ @,
                                           ![h].i = @ + 1]
                     /\ Goto(h, HandlerAfter(h, loc[h].i))
                ELSE /\ loc' = loc
                     /\ Goto(h, "h_ts")
           ELSE /\ loc' = [loc EXCEPT ![h].msg = (key :> AccessorValue(key)) @@ @,
                                      ![h].i = @ + 1]
                /\ Goto(h, HandlerAfter(h, loc[h].i))
    /\ UNCHANGED <<store_vars, clock, calls, lock_owner, lock_depth,
                   outside_vars,
                   manager_vars, class_vars, file_vars>>

\* the second get_last_update() call, whose result is formatted
HandlerTimestamp(h) ==
    /\ pc[h] = "h_ts"
    /\ LockAvailable(h)
    /\ loc' = [loc EXCEPT
                  ![h].msg = ("timestamp" :> Some(IsoFormat(last_update[1]))) @@ @,
                  ![h].i = @ + 1]
    /\ Goto(h, HandlerAfter(h, loc[h].i))
    /\ UNCHANGED <<store_vars, clock, calls, lock_owner, lock_depth,
                   outside_vars,
                   manager_vars, class_vars, file_vars>>

\* the response (or /ws message) has been sent
HandlerReturn(h) ==
    /\ pc[h] = "h_done"
    /\ loc' = [loc EXCEPT ![h] = EmptyDict]
    /\ Goto(h, "idle")
    /\ UNCHANGED <<store_vars, clock, calls, lock_owner, lock_depth,
                   outside_vars,
                   manager_vars, class_vars, file_vars>>

InitConc ==
    /\ StoreInit
    /\ NoConnections
    /\ NoConfigFile
    /\ NoDetector
    /\ lock_owner = None
    /\ lock_depth = 0
    /\ pc = [t \in Threads |-> "idle"]
    /\ loc = [t \in Threads |-> EmptyDict]

Writer(w) ==
    \/ WriterCall(w)
    \/ WriterLock(w)
    \/ WriterTotal(w)
    \/ WriterZoneCounts(w)
    \/ WriterZoneVisitors(w)
    \/ WriterCoordinates(w)
    \/ WriterNow(w)
    \/ WriterHeatmap(w)
    \/ WriterHistory(w)
    \/ WriterUnlock(w)

Reader(r) ==
    \/ ReaderCall(r)
    \/ ReaderLock(r)
    \/ ReaderTotal(r)
    \/ ReaderZones(r)
    \/ ReaderLast(r)
    \/ ReaderRunning(r)
    \/ ReaderAlerts(r)
    \/ ReaderGlobalThreshold(r)
    \/ ReaderZoneThresholds(r)
    \/ ReaderUnlock(r)
    \/ ReaderReturn(r)

Handler(h) ==
    \/ HandlerCall(h)
    \/ HandlerRead(h)
    \/ HandlerTimestamp(h)
    \/ HandlerReturn(h)

NextConc ==
    \/ \E w \in Writers : Writer(w)
    \/ \E r \in Readers : Reader(r)
    \/ \E h \in Handlers : Handler(h)

SpecConc == InitConc /\ [][NextConc]_vars

\* the states update_counts calls leave behind: the state after
\* construction and one state per call, as a reader would see them
Snapshots ==
    {[total_count |-> 0, zone_counts |-> EmptyDict, zone_visitors |-> EmptyDict,
      coordinates |-> <<>>, last_update |-> None]}
    \cup {[total_count |-> calls[i].total_count,
           zone_counts |-> calls[i].zone_counts,
           zone_visitors |-> calls[i].zone_visitors,
           coordinates |-> calls[i].coordinates,
           last_update |-> Some(calls[i].time)] : i \in DOMAIN calls}

\* what a reader gets for an entry when the store is in the given snapshot
SnapshotValue(snap, key) ==
    CASE key = "total_count" -> snap.total_count
      [] key \in {"zones", "zone_counts"} ->
             ZoneCountsOf(snap.zone_counts, snap.zone_visitors)
      [] key = "alerts" ->
             AlertsOf(snap.total_count, snap.zone_counts, global_threshold,
                      zone_thresholds)
      [] key \in {"timestamp", "last_update"} ->
             IF snap.last_update = None THEN None
             ELSE Some(IsoFormat(snap.last_update[1]))

SnapshotKeys ==
    {"total_count", "zones", "zone_counts", "alerts", "timestamp", "last_update"}

\* every snapshot entry of the dict comes from one and the same snapshot
FromOneSnapshot(dict) ==
    \E snap \in Snapshots :
        \A key \in DOMAIN dict \cap SnapshotKeys :
            dict[key] = SnapshotValue(snap, key)

\* C1: every summary get_summary returns has total_count, zone_counts,
\* last_update and alerts that all come from one and the same update_counts
\* call (or all from the state after construction), whatever the
\* interleaving with update_counts calls.
C1_SummaryFromOneUpdate ==
    \A r \in Readers \cap DOMAIN pc :
        pc[r] = "s_done" => FromOneSnapshot(loc[r])

\* a summary was returned while another update_counts call was under way,
\* and it shows the second of two calls
C1_Witness ==
    /\ Readers \subseteq DOMAIN pc
    /\ \E r \in Readers :
           /\ pc[r] = "s_done"
           /\ Len(calls) = 2
           /\ loc[r].total_count = calls[2].total_count
           /\ loc[r].total_count # calls[1].total_count
           /\ loc[r].alerts # EmptyDict

\* C2: every response of /count, /zones and /alerts and every /ws message
\* has entries that all reflect one and the same update_counts call.
C2_ResponseFromOneUpdate ==
    \A h \in Handlers \cap DOMAIN pc :
        pc[h] = "h_done" => FromOneSnapshot(loc[h].msg)

\* the elements of a sequence with their multiplicities
BagOf(list) ==
    [e \in Range(list) |-> Cardinality({i \in DOMAIN list : list[i] = e})]

\* C3: when all of N concurrent update_counts calls have returned (N at
\* most the ring capacity, no clear_history), the history holds exactly N
\* samples, one per call, each made of one call's total_count and
\* zone_counts, and the current total_count, zone_counts, zone_visitors and
\* coordinates are those of one single call.  While the calls run, a call
\* that has written its four fields and has not returned yet finds its own
\* arguments in the store (no other call writes in between).
C3_ConcurrentWriters ==
    /\ (/\ Writers \subseteq DOMAIN pc
         /\ \A w \in Writers : pc[w] = "idle"
         /\ Len(calls) <= HistoryMaxLen) =>
            /\ Len(history) = Len(calls)
            /\ BagOf(history) = BagOf(AllSamples)
            /\ calls # <<>> =>
                   \E i \in DOMAIN calls :
                       /\ total_count = calls[i].total_count
                       /\ zone_counts = calls[i].zone_counts
                       /\ zone_visitors = calls[i].zone_visitors
                       /\ person_coordinates = calls[i].coordinates
    /\ \A w \in Writers \cap DOMAIN pc :
           pc[w] \in {"u_now", "u_heat", "u_hist", "u_unlock"} =>
               /\ total_count = loc[w].total_count
               /\ zone_counts = loc[w].zone_counts
               /\ zone_visitors = loc[w].zone_visitors
               /\ person_coordinates = loc[w].coordinates

\* two calls with different arguments have both returned
C3_Witness ==
    /\ Writers \subseteq DOMAIN pc
    /\ \A w \in Writers : pc[w] = "idle"
    /\ Len(calls) = 2
    /\ calls[1].total_count # calls[2].total_count
    /\ Len(history) = 2

\* the update_counts calls whose sample is in the history or was evicted
\* from it: all calls but the one between its time stamp and its append
Appended ==
    Len(calls) - Cardinality({w \in Writers : pc[w] \in {"u_heat", "u_hist"}})

InsideStore ==
    {t \in Threads :
        pc[t] \in {"u_total", "u_zc", "u_zv", "u_coords", "u_now", "u_heat",
                   "u_hist", "u_unlock",
                   "s_total", "s_zones", "s_last", "s_running", "s_alerts",
                   "s_global", "s_zt", "s_unlock"}}

\* C26: a thread inside a store method holds the state lock, so at most
\* one thread is inside at a time; every step that writes a store field is
\* taken by the thread holding the lock; and an accessor call of a handler
\* runs only while no other thread holds it.
C26_OneLockDomain ==
    /\ [](/\ \A t \in InsideStore : lock_owner = Some(t)
          /\ Cardinality(InsideStore) <= 1
          /\ (lock_owner = None) <=> (InsideStore = {})
          /\ (lock_owner = None) <=> (lock_depth = 0))
    /\ [][store_vars' # store_vars =>
              \E w \in Writers : lock_owner = Some(w) /\ w \in InsideStore]_vars
    /\ [][\A h \in Handlers :
              (HandlerRead(h) \/ HandlerTimestamp(h)) =>
                  InsideStore = {}]_vars

\* a writer is in the middle of update_counts while the other writer, the
\* reader and the handler are waiting for the lock
C26_Witness ==
    /\ Threads \subseteq DOMAIN pc
    /\ pc["w1"] = "u_heat"
    /\ lock_owner = Some("w1")
    /\ pc["w2"] = "u_lock"
    /\ pc["r1"] = "s_lock"
    /\ pc["h1"] = "h_read"

(***************************************************************************)
(* SpecConcFair: SpecConc under fair scheduling.  A thread that can take   *)
(* a step inside a method eventually takes it, and a thread waiting for    *)
(* the lock eventually gets it if the lock is free again and again.        *)
(* Threads are not obliged to start new calls.  One thread, the            *)
(* detector's, calls update_counts.                                        *)
(***************************************************************************)
\* the steps of update_counts between taking and releasing the lock
WriterInside(w) ==
    \/ WriterTotal(w)
    \/ WriterZoneCounts(w)
    \/ WriterZoneVisitors(w)
    \/ WriterCoordinates(w)
    \/ WriterNow(w)
    \/ WriterHeatmap(w)
    \/ WriterHistory(w)
    \/ WriterUnlock(w)

\* the steps of get_summary between taking the lock and returning
ReaderInside(r) ==
    \/ ReaderTotal(r)
    \/ ReaderZones(r)
    \/ ReaderLast(r)
    \/ ReaderRunning(r)
    \/ ReaderAlerts(r)
    \/ ReaderGlobalThreshold(r)
    \/ ReaderZoneThresholds(r)
    \/ ReaderUnlock(r)
    \/ ReaderReturn(r)

\* the thread that calls update_counts: the detector's
FairWriters == {"w1"}

MaxFairCalls == 1

\* the detector calls update_counts
FairWriterCall(w) ==
    /\ pc[w] = "idle"
    /\ Len(calls) + Cardinality(PendingCalls) < MaxFairCalls
    /\ loc' = [loc EXCEPT ![w] =
                  [total_count |-> 1, zone_counts |-> [z \in {"A"} |-> 1],
                   zone_visitors |-> [z \in {"A"} |-> {1}],
                   coordinates |-> << <<1, 1>> >>]]
    /\ Goto(w, "u_lock")
    /\ UNCHANGED <<store_vars, clock, calls, lock_owner, lock_depth,
                   outside_vars,
                   manager_vars, class_vars, file_vars>>

\* the /ws loop starts its next turn
FairHandlerCall(h) ==
    /\ pc[h] = "idle"
    /\ loc' = [loc EXCEPT ![h] = [endpoint |-> "ws", i |-> 1, msg |-> EmptyDict]]
    /\ Goto(h, "h_read")
    /\ UNCHANGED <<store_vars, clock, calls, lock_owner, lock_depth,
                   outside_vars,
                   manager_vars, class_vars, file_vars>>

NextConcFair ==
    \/ \E w \in FairWriters :
           FairWriterCall(w) \/ WriterLock(w) \/ WriterInside(w)
    \/ \E r \in Readers : ReaderCall(r) \/ ReaderLock(r) \/ ReaderInside(r)
    \/ \E h \in Handlers :
           \/ FairHandlerCall(h)
           \/ HandlerRead(h)
           \/ HandlerTimestamp(h)
           \/ HandlerReturn(h)

FairConc ==
    /\ \A w \in FairWriters : SF_vars(WriterLock(w)) /\ WF_vars(WriterInside(w))
    /\ \A r \in Readers : SF_vars(ReaderLock(r)) /\ WF_vars(ReaderInside(r))
    /\ \A h \in Handlers :
           /\ SF_vars(HandlerRead(h))
           /\ SF_vars(HandlerTimestamp(h))
           /\ WF_vars(HandlerReturn(h))

SpecConcFair == InitConc /\ [][NextConcFair]_vars /\ FairConc

Sockets == {"ws1", "ws2"}

MaxWsCalls == 1

\* list.remove(x): the list without the first occurrence of x
RECURSIVE ListRemove(_, _)
ListRemove(list, x) ==
    IF list = <<>> THEN list
    ELSE IF Head(list) = x THEN Tail(list)
    ELSE <<Head(list)>> \o ListRemove(Tail(list), x)

\* what `await websocket.send_json(data)` raises once the client has
\* closed.  The repository pins no version of Starlette or uvicorn:
\* releases that translate the transport's error raise WebSocketDisconnect,
\* the others let the transport's own exception through.
SendErrors == {"WebSocketDisconnect", "ConnectionClosed"}

\* api.py:422, manager.connect: accept and append
WsConnect(ws) ==
    /\ pc[ws] = "ws_connect"
    /\ connection_state' = [connection_state EXCEPT ![ws] = "open"]
    /\ active_connections' = Append(active_connections, ws)
    /\ Goto(ws, "idle")
    /\ UNCHANGED <<store_vars, class_vars, file_vars, clock, calls, lock_owner,
                   lock_depth, loc, outside_vars>>

\* api.py:426-431: the accessor calls of one turn of the loop
WsRead(ws) ==
    /\ FairHandlerCall(ws) \/ HandlerRead(ws) \/ HandlerTimestamp(ws)

\* api.py:432, send_json on an open socket; then api.py:433, the sleep
WsSend(ws) ==
    /\ pc[ws] = "h_done"
    /\ connection_state[ws] = "open"
    /\ Goto(ws, "ws_sleep")
    /\ loc' = [loc EXCEPT ![ws] = EmptyDict]
    /\ UNCHANGED <<store_vars, manager_vars, class_vars, file_vars, clock, calls,
                   lock_owner, lock_depth, outside_vars>>

\* api.py:433: the sleep is over, the next turn begins
WsSleep(ws) ==
    /\ pc[ws] = "ws_sleep"
    /\ Goto(ws, "idle")
    /\ UNCHANGED <<store_vars, manager_vars, class_vars, file_vars, clock, calls,
                   lock_owner, lock_depth, loc, outside_vars>>

\* api.py:432 on a closed socket: send_json raises; `except
\* WebSocketDisconnect` (api.py:434) takes that exception only, any other
\* leaves the endpoint
WsSendRaises(ws) ==
    /\ pc[ws] = "h_done"
    /\ connection_state[ws] = "closed"
    /\ \E error \in SendErrors :
           Goto(ws, IF error = "WebSocketDisconnect" THEN "ws_except"
                    ELSE "ws_end")
    /\ loc' = [loc EXCEPT ![ws] = EmptyDict]
    /\ UNCHANGED <<store_vars, manager_vars, class_vars, file_vars, clock, calls,
                   lock_owner, lock_depth, outside_vars>>

\* api.py:435, manager.disconnect
WsDisconnect(ws) ==
    /\ pc[ws] = "ws_except"
    /\ active_connections' =
           IF \E i \in DOMAIN active_connections : active_connections[i] = ws
           THEN ListRemove(active_connections, ws)
           ELSE active_connections
    /\ Goto(ws, "ws_end")
    /\ UNCHANGED <<store_vars, connection_state, class_vars, file_vars, clock, calls,
                   lock_owner, lock_depth, loc, outside_vars>>

\* the steps of the endpoint's task
WsTask(ws) ==
    \/ WsConnect(ws)
    \/ WsRead(ws)
    \/ WsSend(ws)
    \/ WsSleep(ws)
    \/ WsSendRaises(ws)
    \/ WsDisconnect(ws)

\* the client closes the connection
WsClose(ws) ==
    /\ connection_state[ws] = "open"
    /\ connection_state' = [connection_state EXCEPT ![ws] = "closed"]
    /\ UNCHANGED <<store_vars, active_connections, class_vars, file_vars, clock, calls,
                   thread_vars, outside_vars>>

\* the detector publishes a frame
WsUpdate ==
    /\ Len(calls) < MaxWsCalls
    /\ UpdateCountsCall([total_count |-> 51, zone_counts |-> [z \in {"A"} |-> 2],
                         zone_visitors |-> [z \in {"A"} |-> {1, 2}],
                         coordinates |-> << <<1, 1>>, <<2, 1>> >>])

InitWs ==
    /\ StoreInit
    /\ NoDetector
    /\ lock_owner = None
    /\ lock_depth = 0
    /\ pc = [ws \in Sockets |-> "ws_connect"]
    /\ loc = [ws \in Sockets |-> EmptyDict]
    /\ active_connections = <<>>
    /\ connection_state = [ws \in Sockets |-> "new"]
    /\ NoConfigFile

NextWs ==
    \/ \E ws \in Sockets : WsTask(ws)
    \/ \E ws \in Sockets : WsClose(ws)
    \/ WsUpdate

\* the event loop runs every task that can take a step
SpecWs == InitWs /\ [][NextWs]_vars /\ \A ws \in Sockets : WF_vars(WsTask(ws))

\* C27: no step of the /ws task changes a store field; and once the
\* client has closed the connection the task comes to its end with the
\* socket no longer among the manager's active connections.
C27_WsLoopCancellable ==
    /\ [][\A ws \in Sockets : WsTask(ws) => UNCHANGED store_vars]_vars
    /\ \A ws \in Sockets :
           (connection_state[ws] = "closed") ~>
               (/\ pc[ws] = "ws_end"
                /\ \A i \in DOMAIN active_connections :
                       active_connections[i] # ws)

(***************************************************************************)
(* SpecNew: threads that call SharedState() before any instance exists     *)
(* (shared_state.py:23-59), one statement per step, and then use the       *)
(* instance they were given.                                               *)
(***************************************************************************)
Constructors == {"c1", "c2"}

\* the variables a step of __new__ or of the check in __init__ leaves alone
new_frame == <<store_vars, manager_vars, file_vars, clock, calls, lock_owner,
               lock_depth, outside_vars>>

\* shared_state.py:24, the unlocked test
NewTest(t) ==
    /\ pc[t] = "new_test"
    /\ Goto(t, IF instance = None THEN "new_lock" ELSE "new_return")
    /\ UNCHANGED <<new_frame, class_vars, loc>>

\* shared_state.py:25
NewLock(t) ==
    /\ pc[t] = "new_lock"
    /\ class_lock = None
    /\ class_lock' = Some(t)
    /\ Goto(t, "new_retest")
    /\ UNCHANGED <<new_frame, instance, initialized, attributes, state_lock,
                   loc>>

\* shared_state.py:26, the test under the lock
NewRetest(t) ==
    /\ pc[t] = "new_retest"
    /\ Goto(t, IF instance = None THEN "new_create" ELSE "new_unlock")
    /\ UNCHANGED <<new_frame, class_vars, loc>>

\* shared_state.py:27: the object exists and has no attribute yet
NewCreate(t) ==
    /\ pc[t] = "new_create"
    /\ instance' = Some("shared_state")
    /\ attributes' = {}
    /\ Goto(t, "new_flag")
    /\ UNCHANGED <<new_frame, initialized, class_lock, state_lock, loc>>

\* shared_state.py:28
NewFlag(t) ==
    /\ pc[t] = "new_flag"
    /\ initialized' = Some(FALSE)
    /\ attributes' = attributes \cup {"_initialized"}
    /\ Goto(t, "new_unlock")
    /\ UNCHANGED <<new_frame, instance, class_lock, state_lock, loc>>

\* the end of `with cls._lock`
NewUnlock(t) ==
    /\ pc[t] = "new_unlock"
    /\ class_lock' = None
    /\ Goto(t, "new_return")
    /\ UNCHANGED <<new_frame, instance, initialized, attributes, state_lock,
                   loc>>

\* shared_state.py:29: __new__ returns the instance; __init__ is entered
NewReturn(t) ==
    /\ pc[t] = "new_return"
    /\ loc' = [loc EXCEPT ![t] = [self |-> instance, i |-> 1]]
    /\ Goto(t, "init_test")
    /\ UNCHANGED <<new_frame, class_vars>>

\* shared_state.py:32-33: reading self._initialized raises AttributeError
\* while the attribute does not exist
InitTest(t) ==
    /\ pc[t] = "init_test"
    /\ Goto(t, IF "_initialized" \notin attributes THEN "error"
               ELSE IF initialized[1] THEN "done"
               ELSE "init_flag")
    /\ UNCHANGED <<new_frame, class_vars, loc>>

\* shared_state.py:35
InitFlag(t) ==
    /\ pc[t] = "init_flag"
    /\ initialized' = Some(TRUE)
    /\ Goto(t, "init_field")
    /\ UNCHANGED <<new_frame, instance, attributes, class_lock, state_lock,
                   loc>>

\* shared_state.py:36-59, one assignment: the attribute named
\* InitOrder[loc[t].i] gets its initial value; after the last one __init__
\* returns and the caller has its instance
InitField(t) ==
    /\ pc[t] = "init_field"
    /\ LET f == InitOrder[loc[t].i]
       IN  /\ attributes' = attributes \cup {f}
           /\ state_lock' = IF f = "_state_lock" THEN Some(t) ELSE state_lock
           /\ lock_owner' = IF f = "_state_lock" THEN None ELSE lock_owner
           /\ lock_depth' = IF f = "_state_lock" THEN 0 ELSE lock_depth
           /\ total_count' = IF f = "_total_count" THEN 0 ELSE total_count
           /\ zone_counts' = IF f = "_zone_counts" THEN EmptyDict
                             ELSE zone_counts
           /\ zone_visitors' = IF f = "_zone_visitors" THEN EmptyDict
                               ELSE zone_visitors
           /\ person_coordinates' = IF f = "_person_coordinates" THEN <<>>
                                    ELSE person_coordinates
           /\ heatmap_accumulator' = IF f = "_heatmap_accumulator" THEN None
                                     ELSE heatmap_accumulator
           /\ frame_dimensions' = IF f = "_frame_dimensions"
                                  THEN <<DefaultDim0, DefaultDim1>>
                                  ELSE frame_dimensions
           /\ history' = IF f = "_history" THEN <<>> ELSE history
           /\ global_threshold' = IF f = "_global_threshold"
                                  THEN DefaultGlobalThreshold
                                  ELSE global_threshold
           /\ zone_thresholds' = IF f = "_zone_thresholds" THEN EmptyDict
                                 ELSE zone_thresholds
           /\ last_update' = IF f = "_last_update" THEN None ELSE last_update
           /\ detection_running' = IF f = "_detection_running" THEN FALSE
                                   ELSE detection_running
    /\ loc' = [loc EXCEPT ![t].i = @ + 1]
    /\ Goto(t, IF loc[t].i = Len(InitOrder) THEN "done" ELSE "init_field")
    /\ UNCHANGED <<instance, initialized, class_lock, manager_vars, file_vars,
                   clock, calls, outside_vars>>

\* a caller that has its instance calls set_global_threshold(1)
\* (shared_state.py:161-164); `with self._state_lock` raises AttributeError
\* while the instance has no lock
UseSetGlobalThreshold(t) ==
    /\ pc[t] = "done"
    /\ "written" \notin DOMAIN loc[t]
    /\ IF "_state_lock" \in attributes
       THEN /\ global_threshold' = 1
            /\ attributes' = attributes \cup {"_global_threshold"}
            /\ loc' = [loc EXCEPT ![t] = ("written" :> 1) @@ @]
            /\ pc' = pc
       ELSE /\ Goto(t, "error")
            /\ UNCHANGED <<global_threshold, attributes, loc>>
    /\ UNCHANGED <<total_count, zone_counts, zone_visitors, person_coordinates,
                   heatmap_accumulator, frame_dimensions, history,
                   zone_thresholds, last_update, detection_running,
                   instance, initialized, class_lock, state_lock,
                   manager_vars, file_vars, clock, calls, lock_owner,
                   lock_depth, outside_vars>>

Construct(t) ==
    \/ NewTest(t)
    \/ NewLock(t)
    \/ NewRetest(t)
    \/ NewCreate(t)
    \/ NewFlag(t)
    \/ NewUnlock(t)
    \/ NewReturn(t)
    \/ InitTest(t)
    \/ InitFlag(t)
    \/ InitField(t)

InitNew ==
    /\ FieldsInit
    /\ NoDetector
    /\ NoConnections
    /\ NoConfigFile
    /\ instance = None
    /\ initialized = None
    /\ attributes = {}
    /\ class_lock = None
    /\ state_lock = None
    /\ lock_owner = None
    /\ lock_depth = 0
    /\ pc = [t \in Constructors |-> "new_test"]
    /\ loc = [t \in Constructors |-> EmptyDict]

NextNew ==
    \/ \E t \in Constructors : Construct(t)
    \/ \E t \in Constructors : UseSetGlobalThreshold(t)

SpecNew == InitNew /\ [][NextNew]_vars

FirstMalformed(coordinates) ==
    LET bad == {i \in DOMAIN coordinates : Len(coordinates[i]) # 2}
    IN  IF bad = {} THEN 0 ELSE CHOOSE i \in bad : \A j \in bad : i <= j

\* the coordinate lists with a malformed entry tried: alone, and after an
\* in-bounds point
FailCoordinateArgs == {<< <<1>> >>, << <<1, 1>>, <<1>> >>}

FailArgs ==
    [total_count : {2},
     zone_counts : {[z \in {"A"} |-> 2]},
     zone_visitors : {[z \in {"A"} |-> {1, 2}]},
     coordinates : FailCoordinateArgs]

\* update_counts(total, zc, zv, coordinates) with a malformed entry: lines
\* 68-72 have assigned the fields, _update_heatmap has allocated the grid
\* and drawn the entries before the malformed one when the unpacking
\* raises; the exception leaves the with block, which releases the lock,
\* and the history entry is never appended
UpdateCountsRaises(total, zc, zv, coordinates, t) ==
    /\ lock_owner = None
    /\ FirstMalformed(coordinates) # 0
    /\ total_count' = total
    /\ zone_counts' = zc
    /\ zone_visitors' = zv
    /\ person_coordinates' = coordinates
    /\ last_update' = Some(t)
    /\ clock' = t
    /\ heatmap_accumulator' =
           UpdateHeatmap(heatmap_accumulator, frame_dimensions,
                         SubSeq(coordinates, 1, FirstMalformed(coordinates) - 1))
    /\ UNCHANGED <<history, frame_dimensions, global_threshold,
                   zone_thresholds, detection_running, thread_vars,
                   manager_vars, class_vars, file_vars, detector_vars, calls,
                   last_frame, ever, cleared>>

FailUpdate == RunUpdate

FailUpdateRaises ==
    \E args \in FailArgs : \E t \in NowValues :
        UpdateCountsRaises(args.total_count, args.zone_counts,
                           args.zone_visitors, args.coordinates, t)

FailSetDimensions == HeatSetDimensions

NextFail == FailUpdate \/ FailUpdateRaises \/ FailSetDimensions

SpecFail == Init /\ [][NextFail]_vars

\* C30: an update_counts call that raises leaves every field, the history
\* and the grid as they were before the call, and the lock free.
C30_UpdateAllOrNothing ==
    [][\A args \in FailArgs : \A t \in NowValues :
          UpdateCountsRaises(args.total_count, args.zone_counts,
                             args.zone_visitors, args.coordinates, t) =>
              /\ UNCHANGED <<total_count, zone_counts, zone_visitors,
                             person_coordinates, last_update, history,
                             heatmap_accumulator>>
              /\ lock_owner' = None]_vars

\* C31: whenever the history is not empty its newest sample is the current
\* state (the stored total and zone counts, and the formatted last_update);
\* and last_update is None exactly when no update_counts call has
\* completed.
C31_NewestSampleIsCurrent ==
    /\ history # <<>> =>
           /\ last_update # None
           /\ history[Len(history)] =
                  HistoryEntry(last_update[1], total_count, zone_counts)
    /\ (last_update = None) <=> (calls = <<>>)

(***************************************************************************)
(* SpecDup: the detector with a zones.json in which two enabled zones have *)
(* the same name (load_zones, integrated_detector.py:95-101, takes the     *)
(* file as it is).                                                         *)
(***************************************************************************)
\* a second zone named "A", with the polygon of zone B
ZoneA2 == [name |-> "A", enabled |-> TRUE,
           points |-> << <<0, 0>>, <<4, 0>>, <<4, 2>>, <<0, 2>> >>]

DupZoneList == <<ZoneA, ZoneA2>>

InitDup ==
    /\ StoreInit
    /\ NoConnections
    /\ NoConfigFile
    /\ NoThreads
    /\ zones = DupZoneList
    /\ det_zone_visitors = EmptyDict
    /\ det_zone_current_count = EmptyDict
    /\ frame_count = 0
    /\ last_frame = None
    /\ ever = [z \in ZoneNames(DupZoneList) |-> {}]

DupFrame == ProcessFrame

NextDup == DupFrame

SpecDup == InitDup /\ [][NextDup]_vars

\* C32: after every frame the detector has published (identities distinct
\* within the frame), every zone get_zone_counts reports has current <=
\* total_visitors and current <= total_count.
C32_CurrentBounded ==
    last_frame # None =>
        \A z \in DOMAIN GetZoneCounts :
            /\ GetZoneCounts[z].current <= GetZoneCounts[z].total_visitors
            /\ GetZoneCounts[z].current <= total_count

\* C33: in every check_alerts result an entry under the key "global" is
\* the global alert record (type global, the total against the global
\* threshold), and the key is present whenever the total exceeds the
\* global threshold, whatever the zone names are.
C33_GlobalKeyIsGlobalAlert ==
    LET alerts == CheckAlerts
    IN  /\ "global" \in DOMAIN alerts =>
               /\ alerts["global"].type = "global"
               /\ alerts["global"].threshold = global_threshold
               /\ alerts["global"].current = total_count
        /\ total_count > global_threshold => "global" \in DOMAIN alerts

(***************************************************************************)
(* SpecLife: process_video (integrated_detector.py:402-538) of two         *)
(* detectors that use the one store.  pc[d] is the detector's position:    *)
(* "idle" before the call, "opened" after the source was opened, "dims"    *)
(* after line 429, "setup" after line 430 (the writer, the window and the  *)
(* mouse callback are set up, outside the try block), "loop" inside the    *)
(* try block, "returned" after the call.  The zone statistics of the       *)
(* detectors are left out: a loop turn is its update_counts call.          *)
(***************************************************************************)
Detectors == {"d1", "d2"}

MaxLifeFrames == 2

\* the store fields the flag setters and the frame loop leave alone
life_frame == <<global_threshold, zone_thresholds, zones, det_zone_visitors,
                det_zone_current_count, manager_vars, class_vars, file_vars, calls,
                last_frame, ever, cleared, lock_owner, lock_depth, loc>>

\* lines 413-417: the source cannot be opened, process_video returns
LifeOpenFails(d) ==
    /\ pc[d] = "idle"
    /\ Goto(d, "returned")
    /\ UNCHANGED <<store_vars, frame_count, clock, life_frame>>

\* lines 413-425: the source is open
LifeOpen(d) ==
    /\ pc[d] = "idle"
    /\ Goto(d, "opened")
    /\ UNCHANGED <<store_vars, frame_count, clock, life_frame>>

\* line 429, set_frame_dimensions(self.frame_width, self.frame_height)
LifeSetDimensions(d) ==
    /\ pc[d] = "opened"
    /\ lock_owner = None
    /\ \E dims \in HeatDimensionArgs :
           /\ frame_dimensions' = <<dims[2], dims[1]>>
           /\ heatmap_accumulator' = Some(Zeros(dims[2], dims[1]))
    /\ Goto(d, "dims")
    /\ UNCHANGED <<total_count, zone_counts, zone_visitors, person_coordinates,
                   history, last_update, detection_running, frame_count,
                   clock, life_frame>>

\* line 430, set_detection_running(True)
LifeSetRunning(d) ==
    /\ pc[d] = "dims"
    /\ lock_owner = None
    /\ detection_running' = TRUE
    /\ Goto(d, "setup")
    /\ UNCHANGED <<total_count, zone_counts, zone_visitors, person_coordinates,
                   heatmap_accumulator, frame_dimensions, history, last_update,
                   frame_count, clock, life_frame>>

\* lines 433-459 raise (cv2.VideoWriter, cv2.namedWindow without a display,
\* a KeyboardInterrupt): the statements are before `try`, so the finally
\* block does not run
LifeSetupRaises(d) ==
    /\ pc[d] = "setup"
    /\ Goto(d, "returned")
    /\ UNCHANGED <<store_vars, frame_count, clock, life_frame>>

\* line 464: the try block is entered
LifeEnterLoop(d) ==
    /\ pc[d] = "setup"
    /\ Goto(d, "loop")
    /\ UNCHANGED <<store_vars, frame_count, clock, life_frame>>

\* lines 465-481: a turn of the loop publishes its frame
LifeFrame(d) ==
    /\ pc[d] = "loop"
    /\ frame_count < MaxLifeFrames
    /\ frame_count' = frame_count + 1
    /\ \E args \in RunArgs : \E t \in NowValues :
           UpdateCounts(args.total_count, args.zone_counts,
                        args.zone_visitors, args.coordinates, t)
    /\ UNCHANGED <<zones, det_zone_visitors, det_zone_current_count, calls,
                   last_frame, ever, cleared>>

\* the loop is left by the quit key (line 508) or by an exception of the
\* turn: lines 530-531, the finally block, set_detection_running(False)
LifeFinally(d) ==
    /\ pc[d] = "loop"
    /\ lock_owner = None
    /\ detection_running' = FALSE
    /\ Goto(d, "returned")
    /\ UNCHANGED <<total_count, zone_counts, zone_visitors, person_coordinates,
                   heatmap_accumulator, frame_dimensions, history, last_update,
                   frame_count, clock, life_frame>>

InitLife ==
    /\ StoreInit
    /\ NoDetector
    /\ NoConnections
    /\ NoConfigFile
    /\ lock_owner = None
    /\ lock_depth = 0
    /\ pc = [d \in Detectors |-> "idle"]
    /\ loc = [d \in Detectors |-> EmptyDict]

ProcessVideo(d) ==
    \/ LifeOpenFails(d)
    \/ LifeOpen(d)
    \/ LifeSetDimensions(d)
    \/ LifeSetRunning(d)
    \/ LifeSetupRaises(d)
    \/ LifeEnterLoop(d)
    \/ LifeFrame(d)
    \/ LifeFinally(d)

NextLife == \E d \in Detectors : ProcessVideo(d)

SpecLife == InitLife /\ [][NextLife]_vars

\* C34: is_detection_running is true only while some process_video is
\* between its set_detection_running(True) and the end of its frame loop;
\* it is true once a detector has passed line 430; and it is false when
\* every process_video call has returned, whichever way it left.
C34_FlagTracksLifecycle ==
    /\ [](IsDetectionRunning =>
              \E d \in Detectors : pc[d] \in {"setup", "loop"})
    /\ [][\A d \in Detectors : LifeSetRunning(d) => IsDetectionRunning']_vars
    /\ []((\A d \in Detectors : pc[d] = "returned") => ~IsDetectionRunning)

\* C35: whenever the grid exists its shape is (frame height, frame width)
\* and a coordinate (x, y) passes the in-bounds test exactly when
\* 0 <= x < frame width and 0 <= y < frame height, where the frame size is
\* the one given to set_frame_dimensions or, before any such call, the
\* default: DefaultDim0 (1920) wide and DefaultDim1 (1080) high.
C35_GridMatchesFrame ==
    LET width == IF DimensionsSet THEN frame_dimensions[2] ELSE DefaultDim0
        height == IF DimensionsSet THEN frame_dimensions[1] ELSE DefaultDim1
    IN  heatmap_accumulator # None =>
            /\ heatmap_accumulator[1].shape = <<height, width>>
            /\ \A p \in BoundsProbe :
                   InBounds(frame_dimensions, p[1], p[2]) <=>
                       /\ 0 <= p[1] /\ p[1] < width
                       /\ 0 <= p[2] /\ p[2] < height

(***************************************************************************)
(* SpecPersist: the threshold endpoints of one deployment across process   *)
(* restarts.  data/config.json outlives the process; the store does not.   *)
(***************************************************************************)
\* GET /admin/config/thresholds (admin.py:367-377): the response body
GetThresholds ==
    LET config == LoadConfig
    IN  IF "thresholds" \in DOMAIN config
        THEN config.thresholds
        ELSE [global_threshold |-> global_threshold,
              zone_thresholds |-> EmptyDict]

\* the thresholds check_alerts and get_summary evaluate against
StoreThresholds ==
    [global_threshold |-> global_threshold,
     zone_thresholds |-> zone_thresholds]

\* the request GET /admin/config/thresholds: _load_config writes the
\* default configuration when the file is missing
PersistGet ==
    /\ config_file' = LoadConfigFile
    /\ UNCHANGED <<store_vars, detector_vars, manager_vars, class_vars, clock,
                   thread_vars, calls, last_frame, ever, cleared>>

\* the thresholds the requests carry: absent, or 1 to 3
PersistThresholdArgs == {None} \cup {Some(v) : v \in 1 .. 3}

\* POST /alerts/threshold for zone A
PersistPost ==
    \E g \in PersistThresholdArgs : \E zt \in PersistThresholdArgs :
        PostAlertsThreshold(g, Some("A"), zt)

\* PUT /admin/config/thresholds for zone A
PersistPut ==
    \E g \in PersistThresholdArgs : \E zt \in PersistThresholdArgs :
        UpdateThresholds(g, IF zt = None THEN None
                            ELSE Some([z \in {"A"} |-> zt[1]]))

\* the process ends and run_app.py starts again: `shared_state =
\* SharedState()` (shared_state.py:245) builds a new store; nothing reads
\* the thresholds of data/config.json back into it
Restart ==
    /\ total_count' = 0
    /\ zone_counts' = EmptyDict
    /\ zone_visitors' = EmptyDict
    /\ person_coordinates' = <<>>
    /\ heatmap_accumulator' = None
    /\ frame_dimensions' = <<DefaultDim0, DefaultDim1>>
    /\ history' = <<>>
    /\ global_threshold' = DefaultGlobalThreshold
    /\ zone_thresholds' = EmptyDict
    /\ last_update' = None
    /\ detection_running' = FALSE
    /\ UNCHANGED <<detector_vars, manager_vars, class_vars, file_vars, clock,
                   thread_vars, calls, last_frame, ever, cleared>>

NextPersist == PersistGet \/ PersistPost \/ PersistPut \/ Restart

SpecPersist == Init /\ [][NextPersist]_vars

\* C36: the thresholds GET /admin/config/thresholds reports are the
\* thresholds the store evaluates alerts against, after any sequence of
\* POST /alerts/threshold and PUT /admin/config/thresholds requests and
\* process restarts.
C36_ReportedThresholdsAreUsed == GetThresholds = StoreThresholds

(***************************************************************************)
(* SpecAlias: object sharing between the store and its callers.  A store   *)
(* object is named <<field, 0>>, and <<"history", i>> is the i-th sample   *)
(* dict of the ring.  loc[c].held is the set of store objects that the     *)
(* value caller c was handed refers to; a value built from copies refers   *)
(* to none.  There are fewer update_counts calls than the ring holds, so   *)
(* a sample keeps its index.                                               *)
(***************************************************************************)
Callers == {"c1"}

MaxAliasCalls == 2

AliasArgs ==
    [total_count : {1, 2},
     zone_counts : {EmptyDict, [z \in {"A"} |-> 1]},
     zone_visitors : {EmptyDict},
     coordinates : {<<>>, << <<1, 1>> >>}]

\* update_counts (shared_state.py:70-72, 79): zone_counts.copy(), a dict of
\* v.copy() sets, coordinates.copy() of tuples, and zone_counts.copy() in
\* the sample: the store keeps none of the caller's objects
SharedByUpdateCounts == {}

\* get_zone_counts (shared_state.py:112-119): a new dict of new dicts
SharedByGetZoneCounts == {}

\* get_coordinates (shared_state.py:153): a copy of a list of tuples
SharedByGetCoordinates == {}

\* get_history (shared_state.py:125): list(self._history)[-limit:] is a new
\* list whose elements are the sample dicts of the ring themselves
SharedByGetHistory(limit) ==
    LET index == [i \in 1 .. Len(history) |-> i]
        slice == PySliceFrom(index, 0 - limit)
    IN  {<<"history", slice[k]>> : k \in DOMAIN slice}

\* get_summary (shared_state.py:233-241): scalars, get_zone_counts(),
\* check_alerts() and self._zone_thresholds.copy()
SharedByGetSummary == {}

\* the caller writes to an object it holds: entry['total_count'] = -1 on a
\* sample dict, clear() on a dict or a list
MutateObject(o) ==
    /\ history' = IF o[1] = "history" /\ o[2] \in DOMAIN history
                  THEN [history EXCEPT ![o[2]].total_count = -1]
                  ELSE history
    /\ zone_counts' = IF o[1] = "zone_counts" THEN EmptyDict ELSE zone_counts
    /\ zone_visitors' =
           IF o[1] = "zone_visitors" THEN EmptyDict ELSE zone_visitors
    /\ person_coordinates' =
           IF o[1] = "person_coordinates" THEN <<>> ELSE person_coordinates
    /\ zone_thresholds' =
           IF o[1] = "zone_thresholds" THEN EmptyDict ELSE zone_thresholds

\* a mutation of a value that may refer to the store objects `held`
MutateHeld(held) ==
    /\ IF held = {}
       THEN UNCHANGED <<history, zone_counts, zone_visitors,
                        person_coordinates, zone_thresholds>>
       ELSE \E o \in held : MutateObject(o)
    /\ UNCHANGED <<total_count, heatmap_accumulator, frame_dimensions,
                   global_threshold, last_update, detection_running>>

alias_frame == <<detector_vars, manager_vars, class_vars, file_vars, clock,
                 lock_owner, lock_depth, pc, calls, last_frame, ever, cleared>>

\* the caller calls update_counts and keeps its argument objects
AliasUpdate ==
    /\ Len(calls) < MaxAliasCalls
    /\ \E args \in AliasArgs : UpdateCountsCall(args)

\* the caller mutates the dicts, sets and list it passed to its latest
\* update_counts call
AliasMutateArgs(c) ==
    /\ calls # <<>>
    /\ lock_owner = None
    /\ MutateHeld(SharedByUpdateCounts)
    /\ loc' = [loc EXCEPT ![c] = [op |-> "update_counts", held |-> {}]]
    /\ UNCHANGED alias_frame

\* the caller reads the store and keeps the returned value
AliasGet(c) ==
    /\ lock_owner = None
    /\ \/ loc' = [loc EXCEPT ![c] = [op |-> "get_zone_counts",
                                     held |-> SharedByGetZoneCounts]]
       \/ loc' = [loc EXCEPT ![c] = [op |-> "get_coordinates",
                                     held |-> SharedByGetCoordinates]]
       \/ \E limit \in 1 .. MaxLimit :
              loc' = [loc EXCEPT ![c] = [op |-> "get_history",
                                         held |-> SharedByGetHistory(limit)]]
       \/ loc' = [loc EXCEPT ![c] = [op |-> "get_summary",
                                     held |-> SharedByGetSummary]]
    /\ UNCHANGED <<store_vars, alias_frame>>

\* the caller mutates the value it was returned
AliasMutate(c) ==
    /\ loc[c].op \in {"get_zone_counts", "get_coordinates", "get_history",
                      "get_summary"}
    /\ lock_owner = None
    /\ MutateHeld(loc[c].held)
    /\ loc' = [loc EXCEPT ![c] = [op |-> "mutated", held |-> {}]]
    /\ UNCHANGED alias_frame

InitAlias ==
    /\ StoreInit
    /\ NoDetector
    /\ NoConnections
    /\ NoConfigFile
    /\ lock_owner = None
    /\ lock_depth = 0
    /\ pc = [c \in Callers |-> "run"]
    /\ loc = [c \in Callers |-> [op |-> "none", held |-> {}]]

NextAlias ==
    \/ AliasUpdate
    \/ \E c \in Callers : AliasMutateArgs(c)
    \/ \E c \in Callers : AliasGet(c)
    \/ \E c \in Callers : AliasMutate(c)

SpecAlias == InitAlias /\ [][NextAlias]_vars

\* what the read accessors of the store return
StoreReads ==
    <<total_count, GetZoneCounts, GetCoordinates, GetHistory(HistoryMaxLen),
      GetSummary>>

\* C37: a caller's mutation of the objects it passed to update_counts, or of
\* a value returned by get_zone_counts, get_coordinates, get_history or
\* get_summary, leaves the result of every read accessor as it was.
C37_StoreIsolated ==
    [][\A c \in Callers :
           AliasMutateArgs(c) \/ AliasMutate(c) => StoreReads' = StoreReads]_vars

====
